---- MODULE Spec2Model ----
(***************************************************************************)
(* State-machine model of the APD workcell sequencer: the Tk main loop     *)
(* running the JSON plan driver (winJsonAuto.py), the fixed full-loop      *)
(* driver (winAuto.py) and the manual Play of WinRobotArm, the P1..P4      *)
(* helpers (winRobotArm.py), the balance checks they use, and the robot    *)
(* controller / balance / operator as the environment.                     *)
(*                                                                         *)
(* Strings that the code inspects (labels, dashboard replies) are          *)
(* sequences of one-character strings, so that strip / lower / upper /     *)
(* substring tests are computed as the code computes them.                 *)
(***************************************************************************)
EXTENDS Integers, Sequences, FiniteSets, TLC

(***************************************************************************)
(* Text helpers                                                            *)
(***************************************************************************)
\* str.upper() / str.lower() on one character, as tables
CaseTable ==
    LET lo == <<"a","b","c","d","e","f","g","h","i","j","k","l","m",
                "n","o","p","q","r","s","t","u","v","w","x","y","z">>
        up == <<"A","B","C","D","E","F","G","H","I","J","K","L","M",
                "N","O","P","Q","R","S","T","U","V","W","X","Y","Z">>
    IN [upper |-> [c \in {lo[i] : i \in 1..Len(lo)} |->
                      up[CHOOSE i \in 1..Len(lo) : lo[i] = c]],
        lower |-> [c \in {up[i] : i \in 1..Len(up)} |->
                      lo[CHOOSE i \in 1..Len(up) : up[i] = c]]]

UpperStr(s) == [i \in 1..Len(s) |->
                  IF s[i] \in DOMAIN CaseTable.upper THEN CaseTable.upper[s[i]] ELSE s[i]]
LowerStr(s) == [i \in 1..Len(s) |->
                  IF s[i] \in DOMAIN CaseTable.lower THEN CaseTable.lower[s[i]] ELSE s[i]]

RECURSIVE LStrip(_)
LStrip(s) == IF s # <<>> /\ Head(s) = " " THEN LStrip(Tail(s)) ELSE s

RECURSIVE RStrip(_)
RStrip(s) == IF s # <<>> /\ s[Len(s)] = " " THEN RStrip(SubSeq(s, 1, Len(s) - 1)) ELSE s

\* str.strip()
Strip(s) == RStrip(LStrip(s))

\* kw in s  (Python substring test)
Contains(s, kw) ==
    \E i \in 0..(Len(s) - Len(kw)) : SubSeq(s, i + 1, i + Len(kw)) = kw

\* " ".join(s.split()) on an already stripped string: runs of blanks become one blank
RECURSIVE Collapse(_)
Collapse(s) ==
    IF Len(s) < 2 THEN s
    ELSE IF s[1] = " " /\ s[2] = " " THEN Collapse(Tail(s))
    ELSE <<s[1]>> \o Collapse(Tail(s))

(***************************************************************************)
(* Configuration (config.py) and the fixed tables of the widgets           *)
(***************************************************************************)
NoneV == "None"

\* WinVials._build_group: ids of the E* group and of the F* group, by index
VialIdsC == <<"E1-1","E1-2","E1-3","E1-4","E2-1","E2-2","E2-3","E3-1","E3-2","E3-3","E3-4">>
VialIdsF == <<"F1-1","F1-2","F1-3","F1-4","F2-1","F2-2","F2-3","F3-1","F3-2","F3-3","F3-4">>

\* variant: slot E1-4 numbered as slot E1-3
VialTableE14AsE13 ==
    [v \in {"E1-1","E1-2","E1-3","E1-4","E2-1","E2-2","E2-3","E3-1","E3-2","E3-3","E3-4"} |->
        CASE v = "E1-1" -> 4  [] v = "E1-2" -> 3  [] v = "E1-3" -> 2 [] v = "E1-4" -> 2
          [] v = "E2-1" -> 7  [] v = "E2-2" -> 6  [] v = "E2-3" -> 5
          [] v = "E3-1" -> 11 [] v = "E3-2" -> 10 [] v = "E3-3" -> 9 [] v = "E3-4" -> 8]

\* UR3_CONFIG["vial_id_to_number"]
VIAL_ID_TO_NUMBER ==
    [v \in {"E1-1","E1-2","E1-3","E1-4","E2-1","E2-2","E2-3","E3-1","E3-2","E3-3","E3-4"} |->
        CASE v = "E1-1" -> 4  [] v = "E1-2" -> 3  [] v = "E1-3" -> 2 [] v = "E1-4" -> 1
          [] v = "E2-1" -> 7  [] v = "E2-2" -> 6  [] v = "E2-3" -> 5
          [] v = "E3-1" -> 11 [] v = "E3-2" -> 10 [] v = "E3-3" -> 9 [] v = "E3-4" -> 8]

\* STORAGE_CONFIG
StorageIds    == <<"S1","S2","S3","S4">>
StorageOrder  == <<"S3","S4","S1","S2">>
StorageNumber == [s \in {"S1","S2","S3","S4"} |->
                    CASE s = "S1" -> 1 [] s = "S2" -> 2 [] s = "S3" -> 3 [] s = "S4" -> 4]

StorageLabels ==
    [s \in {"S1","S2","S3","S4"} |->
        CASE s = "S1" -> <<"N","a","H","C","O","3">>
          [] s = "S2" -> <<"C","o","u","C","o","u"," ","E","d","y">>
          [] s = "S3" -> <<"C","o","u","C","o","u"," ","L","o","u","i","s">>
          [] s = "S4" -> <<"A","u","t","r","e"," ","c","h","o","s","e">>]

\* SCALE_CONFIG["vial_presence_min_mg"]
VialPresenceMinMg == 14000


(***************************************************************************)
(* Bounds of the model                                                     *)
(***************************************************************************)
\* how many runs the operator starts in one session
MaxRuns == 1

\* how many device calls may fail (raise, or answer abnormally) within one callback
MaxFaults == 1

\* how many notifications one long poll of the balance brings at most
MaxBatch == 2

\* how many long polls one worker makes before it is left waiting
MaxPolls == 2

\* how many dosing jobs are submitted on the balance tab in one session
MaxEntries == 2
MaxStarts == 2
MaxReloads == 1
MaxJobs == 2

(***************************************************************************)
(* State                                                                   *)
(***************************************************************************)
VARIABLES
    devices,   \* main.py devices map: [ur3, scale], each "None" or "Up"
    robot,     \* UR3 controller: loaded program, program state, the two registers
    balance,   \* balance, physically: door width, mounted dosing head, gross load
    ui,        \* WinRobotArm / WinVials / WinStorage fields
    wb,        \* WinBalance fields
    js,        \* WinJsonAuto fields
    au,        \* WinAuto fields (and the closure variables of _wait_robot_stopped)
    timers,    \* callbacks pending in the Tk event loop
    operator,  \* what the operator uses the application for in this session
    obs        \* history variables: what the last callback did and saw

vars == <<devices, robot, balance, ui, wb, js, au, timers, operator, obs>>

Apply(w) ==
    /\ devices' = w.devices
    /\ robot'   = w.robot
    /\ balance' = w.balance
    /\ ui'      = w.ui
    /\ wb'      = w.wb
    /\ js'      = w.js
    /\ au'      = w.au
    /\ timers'  = w.timers
    /\ obs'     = w.obs
    /\ UNCHANGED operator

\* history of a load: the document, how the parse ended, and the plan and cursors
\* the window held before
NoLoad == [seen |-> FALSE, data |-> [dict |-> FALSE, vials |-> [t |-> "null", items |-> <<>>]],
           exc |-> NoneV, out |-> <<>>, plan |-> <<>>, cur_vial_idx |-> 0,
           cur_powder_idx |-> 0]

\* history of one callback: cleared when the next callback (or the environment) acts
NoStep == [drv |-> NoneV, ph |-> NoneV, outcome |-> NoneV, why |-> NoneV,
           door |-> NoneV, headPhys |-> <<>>, headRead |-> <<>>,
           vial |-> NoneV, storage |-> NoneV, panPhys |-> 0, panRead |-> NoneV,
           prevOpen |-> NoneV, lock |-> FALSE]
NoPoll == [drv |-> NoneV, kind |-> NoneV, canon |-> <<>>, done |-> FALSE, seen |-> FALSE,
           grace |-> FALSE, alive |-> FALSE, tick |-> NoneV, arm |-> NoneV,
           raised |-> FALSE]

\* history of a job submission: what was sent, what the balance answered, and the
\* worker thread and the number of live workers as they were before the submission
NoJob  == [vial |-> "", substance |-> <<>>, target |-> 0, unit |-> "", errors |-> FALSE,
           outcome |-> NoneV, s_err |-> FALSE, before |-> NoneV, workers0 |-> 0]

\* the whole state as one record, so that a callback is a function on it; the history
\* of the previous callback is cleared
Now ==
    [devices |-> devices, robot |-> robot, balance |-> balance, ui |-> ui,
     wb |-> wb, js |-> js, au |-> au, timers |-> timers, exc |-> NoneV,
     obs |-> [obs EXCEPT !.cmds = <<>>, !.step = NoStep, !.poll = NoPoll,
                         !.started = <<>>, !.job = NoJob, !.cancel = <<>>,
                         !.start = NoneV, !.load = NoLoad]]

\* a step of a driver begins: which phase, and which phase of the run was still open
Begin(w, drv, ph) ==
    [w EXCEPT !.obs.step.drv = drv, !.obs.step.ph = ph,
              !.obs.step.prevOpen = CASE drv = "json" -> w.obs.jopen
                                      [] drv = "auto" -> w.obs.aopen
                                      [] OTHER        -> NoneV]

Raise(w, e)  == [w EXCEPT !.exc = e]
Caught(w)    == [w EXCEPT !.exc = NoneV]
Cmd(w, c)    == [w EXCEPT !.obs.cmds = Append(@, c)]

(***************************************************************************)
(* Robot controller (deviceRobotArm.py) as seen through the dashboard      *)
(***************************************************************************)
P1_PROGRAM == <<"/","p","r","o","g","r","a","m","s","/","0","0","M","a","i","n","/","P","1","B","a","s","t","i","e","n",".","u","r","p">>
P2_PROGRAM == <<"/","p","r","o","g","r","a","m","s","/","0","0","M","a","i","n","/","P","2","B","a","s","t","i","e","n",".","u","r","p">>
P3_PROGRAM == <<"/","p","r","o","g","r","a","m","s","/","0","0","M","a","i","n","/","P","3","B","a","s","t","i","e","n",".","u","r","p">>
P4_PROGRAM == <<"/","p","r","o","g","r","a","m","s","/","0","0","M","a","i","n","/","P","4","B","a","s","t","i","e","n",".","u","r","p">>
OTHER_PROGRAM == <<"/","p","r","o","g","r","a","m","s","/","d","e","m","o",".","u","r","p">>
ControllerPrograms == {P1_PROGRAM, P2_PROGRAM, P3_PROGRAM, P4_PROGRAM, OTHER_PROGRAM}

K_RUNNING == <<"R","U","N","N","I","N","G">>
K_PAUSED  == <<"P","A","U","S","E","D">>
K_STOPPED == <<"S","T","O","P","P","E","D">>
K_UNKNOWN == <<"U","N","K","N","O","W","N">>

\* the reply of the controller to "programState": the state word, alone or followed by
\* the program name, with the line end the socket read strips or not
ProgramStateReply(r, fmt) ==
    LET word == IF r.pending THEN K_STOPPED
                ELSE CASE r.state = "PLAYING" -> <<"P","L","A","Y","I","N","G">>
                       [] r.state = "PAUSED"  -> K_PAUSED
                       [] OTHER               -> K_STOPPED
    IN
    CASE fmt = "bare"   -> word
      [] fmt = "named"  -> word \o <<" ">> \o (r.loaded)
      [] OTHER          -> <<" ">> \o LowerStr(word) \o <<" ">>

\* winJsonAuto.py: the classification of a raw programState reply
ClassifyState(raw) ==
    LET s == UpperStr(raw) IN
    IF Contains(s, K_RUNNING) \/ Contains(s, <<"P","L","A","Y","I","N","G">>) THEN K_RUNNING
    ELSE IF Contains(s, <<"P","A","U","S","E">>) THEN K_PAUSED
    ELSE IF Contains(s, <<"S","T","O","P">>) THEN K_STOPPED
    ELSE K_UNKNOWN

\* WinRobotArm._canon_prog_state: one of RUNNING / PAUSED / STOPPED / UNKNOWN
_canon_prog_state(raw) == ClassifyState(raw)

ArmUsable(w) == w.devices.ur3 = "Up"

\* arm.stop()
ArmStop(w, F) ==
    LET w1 == Cmd(w, "stop") IN
    IF ~ArmUsable(w1) \/ "stop" \in F THEN Raise(w1, "UR3ConnectionError")
    ELSE [w1 EXCEPT !.robot.state = "STOPPED", !.robot.pending = FALSE]

\* arm.set_vials_nb(n): writes the VialsNB register
set_vials_nb(w, F, n) ==
    LET w1 == Cmd(w, "set_vials_nb") IN
    IF ~ArmUsable(w1) \/ "write" \in F THEN Raise(w1, "UR3ConnectionError")
    ELSE [w1 EXCEPT !.robot.VialsNB = n]

\* arm.set_disp_nb(n): writes the DispNB register
set_disp_nb(w, F, n) ==
    LET w1 == Cmd(w, "set_disp_nb") IN
    IF ~ArmUsable(w1) \/ "write" \in F THEN Raise(w1, "UR3ConnectionError")
    ELSE [w1 EXCEPT !.robot.DispNB = n]

\* arm.play(): the controller accepts the command; the program state follows later
ArmPlay(w, F) ==
    LET w1 == Cmd(w, "play") IN
    IF ~ArmUsable(w1) \/ "play" \in F THEN Raise(w1, "UR3ConnectionError")
    ELSE IF "play_lock" \in F THEN [w1 EXCEPT !.obs.step.lock = TRUE]
    ELSE IF w1.robot.loaded = <<>> THEN w1
    ELSE [w1 EXCEPT !.robot.pending = (w1.robot.state # "PLAYING"),
                    !.robot.state = IF @ = "PAUSED" THEN "STOPPED" ELSE @]

\* arm.load_program(name)
ArmLoad(w, F, name) ==
    LET w1 == Cmd(w, "load") IN
    IF ~ArmUsable(w1) \/ "load_raise" \in F THEN Raise(w1, "UR3ConnectionError")
    ELSE IF "load_notfound" \in F \/ name \notin ControllerPrograms THEN w1
    ELSE [w1 EXCEPT !.robot.loaded = name, !.robot.state = "STOPPED",
                    !.robot.pending = FALSE]

(***************************************************************************)
(* Balance (deviceScale.py) and the evaluators of WinRobotArm              *)
(***************************************************************************)
DoorOpenWidth  == 100
DoorClosedWidth == 0
PanSamples     == 8

RECURSIVE SeqSum(_)
SeqSum(q) == IF q = <<>> THEN 0 ELSE Head(q) + SeqSum(Tail(q))

\* WM._sample_gross: the gross readings that came back (none when every read was empty)
_sample_gross(w, F) ==
    IF "pan_nosample" \in F THEN <<>> ELSE [i \in 1..PanSamples |-> w.balance.panMg]

\* WM.is_pan_present(min_present_mg): no sample -> not present
is_pan_present(w, F, min_present_mg) ==
    LET vals == _sample_gross(w, F) IN
    IF vals = <<>> THEN FALSE
    ELSE (SeqSum(vals) \div Len(vals)) >= min_present_mg

_is_scale_door_open(w, F) ==
    IF w.devices.scale = NoneV THEN FALSE
    ELSE IF "door_read" \in F THEN FALSE
    ELSE w.balance.door > 0

\* returns the world after the call; obs.step.door records what happened
_ensure_scale_door_open(w, F) ==
    IF w.devices.scale = NoneV THEN [w EXCEPT !.obs.step.door = "no_scale"]
    ELSE IF _is_scale_door_open(w, F) THEN [w EXCEPT !.obs.step.door = "read_open"]
    ELSE LET w1 == Cmd(w, "open_door") IN
         IF "open_door" \in F THEN [w1 EXCEPT !.obs.step.door = "open_failed"]
         ELSE [w1 EXCEPT !.balance.door = DoorOpenWidth, !.obs.step.door = "opened"]

_is_pan_empty(w, F) ==
    IF w.devices.scale = NoneV THEN FALSE
    ELSE IF "pan_read" \in F THEN FALSE
    ELSE ~is_pan_present(w, F, VialPresenceMinMg)

_get_scale_dispenser_name(w, F) ==
    IF w.devices.scale = NoneV THEN <<>>
    ELSE IF "head_read" \in F THEN <<>>
    ELSE Strip(w.balance.head)


_norm_label(s) == Collapse(LowerStr(Strip(s)))

\* first slot, in the order of the labels table, whose normalised label equals the name
_find_storage_by_substance_label(name) ==
    LET target == _norm_label(name)
        hits   == {i \in 1..Len(StorageIds) :
                      _norm_label(StorageLabels[StorageIds[i]]) = target}
    IN
    IF target = <<>> \/ hits = {} THEN NoneV
    ELSE StorageIds[CHOOSE i \in hits : \A j \in hits : i <= j]

(***************************************************************************)
(* Selections (winVials.py, winStorage.py)                                 *)
(***************************************************************************)
get_selected_vial_e(w) ==
    IF 0 <= w.ui.var_vial_index_c /\ w.ui.var_vial_index_c < Len(VialIdsC)
    THEN VialIdsC[w.ui.var_vial_index_c + 1] ELSE NoneV

get_selected_vial_f(w) ==
    IF 0 <= w.ui.var_vial_index_f /\ w.ui.var_vial_index_f < Len(VialIdsF)
    THEN VialIdsF[w.ui.var_vial_index_f + 1] ELSE NoneV

_get_selected_vial_any(w) ==
    IF get_selected_vial_e(w) # NoneV THEN get_selected_vial_e(w)
    ELSE get_selected_vial_f(w)

get_selected_storage(w) ==
    IF 0 <= w.ui.var_storage_index /\ w.ui.var_storage_index < Len(StorageOrder)
    THEN StorageOrder[w.ui.var_storage_index + 1] ELSE NoneV

IndexOf(q, x) == IF \E i \in 1..Len(q) : q[i] = x
                 THEN (CHOOSE i \in 1..Len(q) : q[i] = x) - 1 ELSE -1

set_selected_vial_c(w, vial_id) ==
    IF IndexOf(VialIdsC, vial_id) < 0 THEN w
    ELSE [w EXCEPT !.ui.var_vial_index_c = IndexOf(VialIdsC, vial_id)]

set_selected_vial_f(w, vial_id) ==
    IF IndexOf(VialIdsF, vial_id) < 0 THEN w
    ELSE [w EXCEPT !.ui.var_vial_index_f = IndexOf(VialIdsF, vial_id)]

set_selected_storage(w, storage_id) ==
    [w EXCEPT !.ui.var_storage_index = IndexOf(StorageOrder, storage_id)]

(***************************************************************************)
(* Register helpers of WinRobotArm: checks, then stop, then register write *)
(***************************************************************************)
\* what the helper is about to look at, for the history of the step
Look(w, F) ==
    [w EXCEPT !.obs.step.vial     = _get_selected_vial_any(w),
              !.obs.step.storage  = get_selected_storage(w),
              !.obs.step.headPhys = w.balance.head,
              !.obs.step.headRead = _get_scale_dispenser_name(w, F),
              !.obs.step.panPhys  = w.balance.panMg,
              !.obs.step.panRead  =
                  IF w.devices.scale = NoneV THEN "unreachable"
                  ELSE IF "pan_read" \in F THEN "failed"
                  ELSE IF _sample_gross(w, F) = <<>> THEN "no_data"
                  ELSE IF is_pan_present(w, F, VialPresenceMinMg) THEN "present"
                  ELSE "absent"]

Checked(w) == Cmd([w EXCEPT !.obs.step.why = "checks_passed"], "checks_passed")
Blocked(w, e) == Raise([w EXCEPT !.obs.step.why = e], e)

_vial_id_to_number(vial_id) ==
    IF vial_id \in DOMAIN VIAL_ID_TO_NUMBER THEN VIAL_ID_TO_NUMBER[vial_id] ELSE -1

_storage_id_to_number(storage_id) == StorageNumber[storage_id]

_play_p1(w, F) ==
    LET vial_id == _get_selected_vial_any(w)
    IN
    IF vial_id = NoneV THEN Blocked(w, "Vial requise pour P1")
    ELSE IF _vial_id_to_number(vial_id) < 0 THEN Raise(w, "ValueError")
    ELSE LET w1 == _ensure_scale_door_open(w, F) IN
         IF ~_is_pan_empty(w1, F) THEN Blocked(w1, "Pan non vide")
         ELSE LET ws == ArmStop(Checked(w1), F) IN
              IF ws.exc # NoneV THEN ws
              ELSE set_vials_nb(ws, F, _vial_id_to_number(vial_id))

_play_p2(w, F) ==
    LET storage_id == get_selected_storage(w)
    IN
    IF storage_id = NoneV THEN Blocked(w, "Storage requis")
    ELSE IF _get_scale_dispenser_name(w, F) # <<>> THEN Blocked(w, "Dispenser deja present")
    ELSE LET ws == ArmStop(Checked(w), F) IN
         IF ws.exc # NoneV THEN ws
         ELSE set_disp_nb(ws, F, _storage_id_to_number(storage_id))

\* variant: P3 without the pan check
_play_p3_no_pan_check(w, F) ==
    LET vial_id == _get_selected_vial_any(w)
    IN
    IF vial_id = NoneV THEN Blocked(w, "Vial requise pour P3")
    ELSE LET ws == ArmStop(Checked(_ensure_scale_door_open(w, F)), F) IN
         IF ws.exc # NoneV THEN ws
         ELSE set_vials_nb(ws, F, _vial_id_to_number(vial_id))

_play_p3(w, F) ==
    LET vial_id == _get_selected_vial_any(w)
    IN
    IF vial_id = NoneV THEN Blocked(w, "Vial requise pour P3")
    ELSE IF _vial_id_to_number(vial_id) < 0 THEN Raise(w, "ValueError")
    ELSE LET w1 == _ensure_scale_door_open(w, F) IN
         IF _is_pan_empty(w1, F) THEN Blocked(w1, "Pan vide")
         ELSE LET ws == ArmStop(Checked(w1), F) IN
              IF ws.exc # NoneV THEN ws
              ELSE set_vials_nb(ws, F, _vial_id_to_number(vial_id))

\* variant: P4 writes the number of the ticked storage slot
_play_p4_ticked_slot(w, F) ==
    LET name == _get_scale_dispenser_name(w, F)
        storage_id == get_selected_storage(w)
    IN
    IF name = <<>> THEN Blocked(w, "Pas de dispenser")
    ELSE IF storage_id = NoneV THEN Blocked(w, "Label inconnu")
    ELSE LET ws == ArmStop(Checked(w), F) IN
         IF ws.exc # NoneV THEN ws
         ELSE set_disp_nb(ws, F, _storage_id_to_number(storage_id))

_play_p4(w, F) ==
    LET name == _get_scale_dispenser_name(w, F)
        storage_id == _find_storage_by_substance_label(name)
    IN
    IF name = <<>> THEN Blocked(w, "Pas de dispenser")
    ELSE IF storage_id = NoneV THEN Blocked(w, "Label inconnu")
    ELSE LET ws == ArmStop(Checked(w), F) IN
         IF ws.exc # NoneV THEN ws
         ELSE set_disp_nb(ws, F, _storage_id_to_number(storage_id))

\* variant: the register is written before the stop
_play_default_write_first(w, F) ==
    LET vial_id == _get_selected_vial_any(w)
        w1 == IF vial_id = NoneV THEN Checked(w)
              ELSE set_vials_nb(Checked(w), F, _vial_id_to_number(vial_id))
    IN
    IF w1.exc # NoneV THEN w1 ELSE ArmStop(w1, F)

_play_default(w, F) ==
    LET vial_id == _get_selected_vial_any(w)
        w1 == ArmStop(Checked(w), F)
    IN
    IF w1.exc # NoneV \/ vial_id = NoneV THEN w1
    ELSE IF _vial_id_to_number(vial_id) < 0 THEN Raise(w1, "ValueError")
    ELSE set_vials_nb(w1, F, _vial_id_to_number(vial_id))

\* the helper of a phase label; the history takes what it is about to look at
Helper(ph, w0, F) ==
    LET w == Look(w0, F) IN
    CASE ph = "P1" -> _play_p1(w, F)
      [] ph = "P2" -> _play_p2(w, F)
      [] ph = "P3" -> _play_p3(w, F)
      [] ph = "P4" -> _play_p4(w, F)
      [] OTHER     -> _play_default(w, F)

(***************************************************************************)
(* WinRobotArm: connection, program list, load                             *)
(***************************************************************************)
_set_state(w, st) == [w EXCEPT !.ui._state = st]

\* WinRobotArm.on_connect: every failure is caught and shown as status "Error"
on_connect(w, F) ==
    IF "connect" \in F THEN [w EXCEPT !.ui.var_status = "Error"]
    ELSE [_set_state(w, "idle") EXCEPT !.devices.ur3 = "Up", !.ui.var_status = "Connected"]

_force_need_reconnect(w) ==
    [_set_state(w, "idle") EXCEPT !.devices.ur3 = NoneV, !.ui.var_status = "Need Reconnect"]

\* the combo takes the listing the controller returns, in directory order
on_refresh_programs(w, F) ==
    IF ~ArmUsable(w) \/ "list" \in F THEN w
    ELSE [w EXCEPT !.ui.cmb_programs =
              IF "list_missing" \in F THEN <<OTHER_PROGRAM>>
              ELSE <<OTHER_PROGRAM, P1_PROGRAM, P2_PROGRAM, P3_PROGRAM, P4_PROGRAM>>]

\* on_load_selected_program, with the refresh of the "loaded program" line that it
\* schedules 150 ms later
on_load_selected_program(w, F) ==
    LET prog == Strip(w.ui.var_selected_program) IN
    IF prog = <<>> THEN w
    ELSE IF ~ArmUsable(w) THEN [w EXCEPT !.ui.var_status = "Error"]
    ELSE LET w1 == ArmLoad(w, F, prog) IN
         IF w1.exc # NoneV THEN [Caught(w1) EXCEPT !.ui.var_status = "Error"]
         ELSE IF "load_lock" \in F
              THEN _force_need_reconnect(Cmd([w EXCEPT !.obs.step.lock = TRUE], "load"))
         ELSE [w1 EXCEPT !.ui.var_program = w1.robot.loaded]

(***************************************************************************)
(* WinJsonAuto: the plan driver                                            *)
(***************************************************************************)
_ensure_ur3_connected(w, F) == IF ArmUsable(w) THEN w ELSE on_connect(w, F)

Cancel(w, id) == [w EXCEPT !.timers = @ \ {id}]
After(w, id)  == [w EXCEPT !.timers = @ \cup {id}]

\* close the run in the history: nothing of it is in progress any more
\* variant: the terminal line is logged twice
EndRunTwice(w, drv, how) ==
    IF drv = "json"
    THEN [w EXCEPT !.obs.jopen = NoneV, !.obs.jterminal = @ \o <<how, how>>]
    ELSE [w EXCEPT !.obs.aopen = NoneV, !.obs.aterminal = @ \o <<how, how>>]

EndRun(w, drv, how) ==
    IF drv = "json"
    THEN [w EXCEPT !.obs.jopen = NoneV, !.obs.jterminal = Append(@, how)]
    ELSE [w EXCEPT !.obs.aopen = NoneV, !.obs.aterminal = Append(@, how)]

\* variant: the abort line is logged, the running flag and the pending timer are left
_abort_log_only(w, reason) ==
    IF ~w.js._running THEN w
    ELSE EndRun([w EXCEPT !.obs.step.outcome = IF @ = NoneV THEN reason ELSE @],
                "json", "aborted")

_abort(w, reason) ==
    IF ~w.js._running THEN w
    ELSE LET w1 == [w EXCEPT !.js._running = FALSE, !.js._waiting_for = NoneV,
                             !.js._current_phase = NoneV]
             w2 == IF w1.js._after_id # NoneV
                   THEN [Cancel(w1, w1.js._after_id) EXCEPT !.js._after_id = NoneV]
                   ELSE w1
         IN EndRun([w2 EXCEPT !.obs.step.outcome =
                                  IF @ = NoneV THEN reason ELSE @], "json", "aborted")

_finish(w) ==
    IF ~w.js._running THEN w
    ELSE EndRun([w EXCEPT !.js._running = FALSE, !.js._waiting_for = NoneV,
                         !.js._current_phase = NoneV, !.js._after_id = NoneV],
                "json", "finished")

\* p_low.endswith("/" + short_low) or p_low.endswith("\\" + short_low) or p_low == short_low
NameMatches(p_low, short_low) ==
    LET EndsWith(s, suf) ==
            Len(s) >= Len(suf) /\ SubSeq(s, Len(s) - Len(suf) + 1, Len(s)) = suf
    IN
    \/ EndsWith(p_low, <<"/">> \o short_low)
    \/ EndsWith(p_low, <<"\\">> \o short_low)
    \/ p_low = short_low

\* the first program of the combo list whose name ends with the short name
RECURSIVE FindTarget(_, _)
FindTarget(values, short_name) ==
    IF values = <<>> THEN <<>>
    ELSE IF NameMatches(LowerStr(Head(values)), LowerStr(short_name)) THEN Head(values)
    ELSE FindTarget(Tail(values), short_name)

\* history of a Start handler: whether a run of either driver was going on at the call
StartRequest(w) ==
    [w EXCEPT !.obs.start = IF w.js._running \/ w.au._seq_running THEN "busy" ELSE "free"]

_schedule_poll(w, on_done) ==
    IF ~w.js._running THEN w
    ELSE After([w EXCEPT !.js._on_done_program = on_done,
                         !.js._after_id = "json_poll_program"], "json_poll_program")

\* history of a phase that was started (play accepted, or dosing handed over)
Started(w, drv, ph) ==
    [w EXCEPT !.obs.started = Append(@, ph),
              !.obs.step.drv = drv, !.obs.step.ph = ph, !.obs.step.outcome = "played"]

\* the run log takes the phase as started: its label and what it was started on
JsonStarted(w, ph) ==
    LET entry ==
          [ph |-> ph,
           on |-> CASE ph = "P1"     -> <<_get_selected_vial_any(w)>>
                    [] ph = "P2"     -> <<get_selected_storage(w)>>
                    [] ph = "DOSING" -> IF w.obs.job.outcome = NoneV THEN <<>>
                                        ELSE <<w.obs.job.substance, w.obs.job.target,
                                               w.obs.job.unit>>
                    [] OTHER         -> <<>>]
    IN
    [Started(w, "json", ph) EXCEPT !.obs.trace = Append(@, entry),
                                   !.obs.jopen = ph,
                                   !.obs.jpast = FALSE, !.obs.jseen = FALSE]

\* steps 3 to 5 of _start_program_with_helper, on what the helper left: play, robot
\* view set to running, poll scheduled
PlayAndWatch(wh, F, phase_label, on_done) ==
    IF wh.exc # NoneV THEN _abort(Caught(wh), "helper_failed")
    ELSE IF ~ArmUsable(wh) \/ "state_before" \in F THEN _abort(wh, "play_failed")
    ELSE
    LET wq == ArmPlay(wh, F) IN
    IF wq.exc # NoneV THEN _abort(Caught(wq), "play_failed")
    ELSE _schedule_poll([JsonStarted(_set_state(wq, "running"), phase_label)
                            EXCEPT !.js._current_phase = phase_label,
                                   !.js._waiting_for = "program"], on_done)

_start_program_with_helper(w0, F, short_name, phase_label, on_done) ==
    IF ~w0.js._running THEN w0
    ELSE
    LET w  == Begin(w0, "json", phase_label)
        wc == _ensure_ur3_connected(w, F)
    IN
    IF ~ArmUsable(wc) THEN _abort(wc, "not_connected")
    ELSE
    LET wl == on_refresh_programs(wc, F)
        target == FindTarget(wl.ui.cmb_programs, short_name)
    IN
    IF wl.ui.cmb_programs = <<>> \/ target = <<>> THEN _abort(wl, "load_failed")
    ELSE
    LET wp == on_load_selected_program([wl EXCEPT !.ui.var_selected_program = target], F)
    IN PlayAndWatch(Helper(phase_label, wp, F), F, phase_label, on_done)

(***************************************************************************)
(* WinBalance: connection and start of a dosing job                        *)
(***************************************************************************)
scale_on_connect(w, F) ==
    IF "scale_connect" \in F THEN w ELSE [w EXCEPT !.devices.scale = "Up"]

\* WinBalance._watch_period: the door positions are asked for; the Connect button shows
\* the result, the handle in the device map is left as it is
scale_watch_period(w, F) ==
    IF w.devices.scale = "Up" /\ "door_read" \notin F THEN Cmd(w, "btn_connect:Connected")
    ELSE Cmd(w, "btn_connect:Connect")

_ensure_scale_connected(w, F) ==
    IF w.devices.scale = "Up" THEN w ELSE scale_on_connect(w, F)

\* the worker thread of the window: where it is in auto_confirm_dosing_notifications
\* ("top": at the head of the loop, "wait": in the long poll, "batch": inside the for
\* loop, "done": returned),
\* the notifications of the batch still to process, the long polls made so far
NoWorker == [pc |-> NoneV, batch |-> <<>>, polls |-> 0]

\* variant: a worker thread is created whatever the state of the previous one
_start_dosing_notifications_thread_always(w) ==
    [w EXCEPT !.wb._dosing_thread = "alive", !.wb._dosing_stop = "clear",
              !.wb.workers = @ + 1, !.wb.worker = [NoWorker EXCEPT !.pc = "top"], !.obs.wlog = <<>>,
              !.obs.reopens = 0]

\* a worker thread is created, with a fresh stop event, unless the thread the window
\* holds is alive
_start_dosing_notifications_thread(w) ==
    IF w.wb._dosing_thread = "alive" THEN w
    ELSE [w EXCEPT !.wb._dosing_thread = "alive", !.wb._dosing_stop = "clear",
                   !.wb.workers = @ + 1, !.wb.worker = [NoWorker EXCEPT !.pc = "top"], !.obs.wlog = <<>>,
                   !.obs.reopens = 0]

\* variant: the outcome of the response is not looked at
JobAcceptedAnyOutcome(out, s_err, jerr) == ~s_err

\* the test of on_start_dosing_job on the response of start_dosing_job
JobAccepted(out, s_err, jerr) == out = "Success" /\ ~s_err

\* on_start_dosing_job: every early return and every caught exception leaves the
\* worker thread as it was
on_start_dosing_job(w, F) ==
    IF w.devices.scale = NoneV THEN w
    ELSE LET w1 == Cmd(w, "close_door") IN
    IF "close_door" \in F THEN w1
    ELSE LET w2 == [w1 EXCEPT !.balance.door = DoorClosedWidth]
             head_name == Strip(w2.balance.head)
         IN
    IF "head_read" \in F \/ head_name = <<>> THEN w2
    ELSE IF "pan_read" \in F \/ ~is_pan_present(w2, F, VialPresenceMinMg) THEN w2
    ELSE LET w3 == IF Strip(w2.wb.var_d_substance) = <<>>
                   THEN [w2 EXCEPT !.wb.var_d_substance = head_name] ELSE w2
             w4 == Cmd(w3, "start_dosing_job")
         IN
    IF "job" \in F THEN w4
    ELSE LET out   == IF "job_outcome" \in F THEN "Error" ELSE "Success"
             s_err == "job_start_error" \in F
             jerr  == "job_errors" \in F
             w5 == [w4 EXCEPT !.obs.job = [vial |-> w4.wb.var_d_vial,
                                           substance |-> Strip(w4.wb.var_d_substance),
                                           target |-> w4.wb.var_d_target,
                                           unit |-> w4.wb.var_d_tu,
                                           errors |-> jerr, outcome |-> out,
                                           s_err |-> s_err,
                                           before |-> w4.wb._dosing_thread,
                                           workers0 |-> w4.wb.workers]]
         IN
    IF JobAccepted(out, s_err, jerr) THEN _start_dosing_notifications_thread(w5) ELSE w5

(***************************************************************************)
(* deviceScale.py: session retry, confirm, the notification consumer       *)
(***************************************************************************)
\* an entry of the worker's log: a long poll and how it ended, a session reopen, a
\* notification taken from the batch, a call of confirm_dosing_action, a
\* ConfirmDosingJobAction request and how it ended, the return of the consumer.
\* The log holds what the worker did since its last long poll began.
Ev(op, kind, action, item) == [op |-> op, kind |-> kind, action |-> action, item |-> item]
Log(w, e) == [w EXCEPT !.obs.wlog = Append(@, e)]

\* _with_session_retry(fn): the request goes out; on an error whose text holds
\* "Session" the session is opened again and the request goes out once more; any other
\* error, and any error of the second request, is raised to the caller
_with_session_retry(w, req, outs) ==
    LET w1 == Log(w, [req EXCEPT !.kind = outs[1]]) IN
    IF outs[1] = "ok" THEN w1
    ELSE IF outs[1] # "Session" THEN Raise(w1, outs[1])
    ELSE LET w2 == Log(Log(w1, Ev("reopen", "call", "", "")), [req EXCEPT !.kind = outs[2]]) IN
    IF outs[2] = "ok" THEN w2 ELSE Raise(w2, outs[2])

\* variant: the action item of the notification is not passed on
confirm_dosing_action_no_item(w, action, action_item, outs) ==
    _with_session_retry(Log(w, Ev("confirm", "", action, "")),
                        Ev("send", "", action, ""), outs)

\* confirm_dosing_action(action, action_item): ConfirmDosingJobAction with the action
\* and the item ("" for no item)
confirm_dosing_action(w, action, action_item, outs) ==
    LET item == IF action_item = NoneV THEN "" ELSE action_item IN
    _with_session_retry(Log(w, Ev("confirm", "", action, item)),
                        Ev("send", "", action, item), outs)

\* the notifications of a dosing run: an action to confirm (with an item, without an
\* item, without an action type), a finished job, the end of the job list
Notifications ==
    {Ev("notif", "Action", "PlaceVial", "Vial1"), Ev("notif", "Action", "PlaceHead", NoneV),
     Ev("notif", "Action", "", "Vial1"), Ev("notif", "JobFinished", "", NoneV),
     Ev("notif", "Finished", "", NoneV)}

\* the consumer returns (or an exception leaves it): the worker thread ends
WorkerExit(w, why) ==
    Log([w EXCEPT !.wb.worker.pc = "done",
                  !.wb._dosing_thread = "dead", !.wb.workers = @ - 1, !.exc = NoneV],
        Ev("exit", why, "", ""))

\* variant: a finished job ends the consumer too
TerminatesOnJobFinished(n) == n.kind \in {"Finished", "JobFinished"}

\* the notification on which auto_confirm_dosing_notifications returns
Terminates(n) == n.kind = "Finished"

\* auto_confirm_dosing_notifications, head of the loop: the stop event is looked at,
\* then the GetNotifications request goes out ("wait": the long poll is in flight)
ConsumerHead(w) ==
    IF w.wb._dosing_stop = "set" THEN WorkerExit(w, "stop")
    ELSE [w EXCEPT !.wb.worker.pc = "wait"]

\* ... and the long poll ends; res is how: with a batch, with a session error (the
\* session is reopened and the loop goes on) or with another error (the consumer
\* returns)
ConsumerPoll(w, res) ==
    LET w1 == Log([w EXCEPT !.wb.worker.polls = @ + 1, !.obs.wlog = <<>>,
                            !.wb.worker.pc = "top",
                            !.obs.reopens = IF res.end = "Session" THEN @ + 1 ELSE 0],
                  Ev("poll", res.end, "", "")) IN
    CASE res.end = "Session" -> Log(w1, Ev("reopen", "poll", "", ""))
      [] res.end = "Other"   -> WorkerExit(w1, "error")
      [] OTHER -> IF res.batch = <<>> THEN w1
                  ELSE [w1 EXCEPT !.wb.worker.batch = res.batch, !.wb.worker.pc = "batch"]

\* auto_confirm_dosing_notifications, one turn of the for loop on the batch
ConsumerProcess(w, outs) ==
    LET n    == Head(w.wb.worker.batch)
        rest == Tail(w.wb.worker.batch)
        w1   == Log([w EXCEPT !.wb.worker.batch = rest,
                              !.wb.worker.pc = IF rest = <<>> THEN "top" ELSE "batch"], n)
    IN
    IF n.kind = "Action" /\ n.action # ""
    THEN LET w2 == confirm_dosing_action(w1, n.action, n.item, outs) IN
         IF w2.exc # NoneV THEN WorkerExit(w2, "raised") ELSE w2
    ELSE IF Terminates(n) THEN WorkerExit(w1, "finished")
    ELSE w1

(***************************************************************************)
(* winScale.py: the Cancel button                                          *)
(***************************************************************************)
\* variant: the stop event is left alone when a cancel call raised
SignalStopIfAnswered(w) ==
    IF w.wb._dosing_stop # NoneV /\ w.obs.cancel[Len(w.obs.cancel)].result # "raise"
    THEN [w EXCEPT !.wb._dosing_stop = "set"] ELSE w

\* the stop event of the worker is set, if there is one
SignalStop(w) ==
    IF w.wb._dosing_stop # NoneV THEN [w EXCEPT !.wb._dosing_stop = "set"] ELSE w

\* on_cancel_dosing_job: the cancel calls made and how each ended are kept in
\* obs.cancel; r holds how the three calls would end
on_cancel_dosing_job(w, r) ==
    LET c1 == <<[call |-> "cancel_dosing_job_list", result |-> r[1]]>>
        c2 == <<[call |-> "cancel_current_task", result |-> r[2]]>>
        c3 == <<[call |-> "cancel_command", result |-> r[3]]>>
        calls == IF r[1] \in {NoneV, "Success", "raise"} THEN c1
                 ELSE IF r[2] \in {NoneV, "Success", "raise"} THEN c1 \o c2
                 ELSE c1 \o c2 \o c3
    IN SignalStop([w EXCEPT !.obs.cancel = calls])

(***************************************************************************)
(* win.py: the callbacks the plan driver uses on the manual view           *)
(***************************************************************************)
_json_select_vial(w, vial_id) ==
    LET w1 == set_selected_vial_c(w, vial_id)
        w2 == IF _get_selected_vial_any(w1) # vial_id
              THEN set_selected_vial_f(w1, vial_id) ELSE w1
    IN IF _get_selected_vial_any(w2) # vial_id THEN Raise(w2, "vial inconnue") ELSE w2

_json_select_powder(w, vial_id, powder_name) ==
    LET storage_id == _find_storage_by_substance_label(powder_name) IN
    IF storage_id = NoneV THEN Raise(w, "poudre inconnue")
    ELSE set_selected_storage(w, storage_id)

_json_prepare_dosing(w, vial_id, powder_name, qty_mg) ==
    [w EXCEPT !.wb.var_d_vial = vial_id, !.wb.var_d_substance = powder_name,
              !.wb.var_d_target = qty_mg, !.wb.var_d_tu = "mg"]

(***************************************************************************)
(* WinJsonAuto: the chain of phases                                        *)
(***************************************************************************)
\* "no vial" / "no powder" (None in the code)
NoVial   == [vial_id |-> NoneV, powders |-> <<>>]
NoPowder == [name |-> <<>>, qty_mg |-> 0]

_get_current_vial(w) ==
    IF 0 <= w.js.cur_vial_idx /\ w.js.cur_vial_idx < Len(w.js.plan)
    THEN w.js.plan[w.js.cur_vial_idx + 1] ELSE NoVial

_get_current_powder(w) ==
    LET vial == _get_current_vial(w) IN
    IF vial = NoVial THEN NoPowder
    ELSE IF 0 <= w.js.cur_powder_idx /\ w.js.cur_powder_idx < Len(vial.powders)
    THEN vial.powders[w.js.cur_powder_idx + 1] ELSE NoPowder

_start_vial_p4(w, F) ==
    IF ~w.js._running THEN w
    ELSE IF _get_current_vial(w) = NoVial THEN _finish(w)
    ELSE _start_program_with_helper(w, F, <<"P","4","B","a","s","t","i","e","n",".","u","r","p">>, "P4", "_after_p4")

_start_powder_cycle(w, F) ==
    IF ~w.js._running THEN w
    ELSE IF _get_current_vial(w) = NoVial \/ _get_current_powder(w) = NoPowder
    THEN _start_vial_p4(w, F)
    ELSE LET w1 == _json_select_powder(w, _get_current_vial(w).vial_id,
                                       _get_current_powder(w).name) IN
         IF w1.exc # NoneV THEN _abort(Caught(w1), "select_failed")
         ELSE _start_program_with_helper(w1, F, <<"P","2","B","a","s","t","i","e","n",".","u","r","p">>, "P2", "_after_p2_for_powder")

_start_vial_p1(w, F) ==
    IF ~w.js._running THEN w
    ELSE IF _get_current_vial(w) = NoVial THEN _finish(w)
    ELSE LET w1 == _json_select_vial(w, _get_current_vial(w).vial_id) IN
         IF w1.exc # NoneV THEN _abort(Caught(w1), "select_failed")
         ELSE _start_program_with_helper(w1, F, <<"P","1","B","a","s","t","i","e","n",".","u","r","p">>, "P1", "_after_p1")

_after_p1(w, F) ==
    IF ~w.js._running THEN w
    ELSE _start_powder_cycle([w EXCEPT !.js.cur_powder_idx = 0], F)

_start_dosing(w0, F, on_done) ==
    IF ~w0.js._running THEN w0
    ELSE LET w  == Begin(w0, "json", "DOSING")
             w1 == _ensure_scale_connected(w, F) IN
    IF w1.devices.scale # "Up" THEN _abort(w1, "not_connected")
    ELSE LET w2 == on_start_dosing_job(w1, F) IN
         After([JsonStarted(w2, "DOSING") EXCEPT !.js._waiting_for = "dosing",
                                                 !.js._on_done_dosing = on_done,
                                                 !.js._after_id = "json_poll_dosing"],
               "json_poll_dosing")

_after_p2_for_powder(w, F) ==
    IF ~w.js._running THEN w
    ELSE IF _get_current_vial(w) = NoVial \/ _get_current_powder(w) = NoPowder
    THEN _start_vial_p4(w, F)
    ELSE _start_dosing(_json_prepare_dosing(w, _get_current_vial(w).vial_id,
                                            _get_current_powder(w).name,
                                            _get_current_powder(w).qty_mg),
                       F, "_after_dosing_for_powder")

_after_dosing_for_powder(w, F) ==
    IF ~w.js._running THEN w
    ELSE IF _get_current_vial(w) = NoVial \/ _get_current_powder(w) = NoPowder
    THEN _start_vial_p4(w, F)
    ELSE _start_program_with_helper(w, F, <<"P","3","B","a","s","t","i","e","n",".","u","r","p">>, "P3", "_after_p3_for_powder")

\* variant: after P3 the vial is closed with P4 whatever powders remain
_after_p3_skip_powders(w, F) ==
    IF ~w.js._running THEN w
    ELSE IF _get_current_vial(w) = NoVial THEN _finish(w)
    ELSE _start_vial_p4([w EXCEPT !.js.cur_powder_idx = @ + 1], F)

_after_p3_for_powder(w, F) ==
    IF ~w.js._running THEN w
    ELSE IF _get_current_vial(w) = NoVial THEN _finish(w)
    ELSE LET w1 == [w EXCEPT !.js.cur_powder_idx = @ + 1] IN
         IF _get_current_powder(w1) # NoPowder THEN _start_powder_cycle(w1, F)
         ELSE _start_vial_p4(w1, F)

_after_p4(w, F) ==
    IF ~w.js._running THEN w
    ELSE LET w1 == [w EXCEPT !.js.cur_vial_idx = @ + 1, !.js.cur_powder_idx = 0] IN
         IF _get_current_vial(w1) # NoVial THEN _start_vial_p1(w1, F) ELSE _finish(w1)

\* cb(): the continuation stored by _schedule_poll / _start_dosing
OnDone(cb, w, F) ==
    CASE cb = "_after_p1"                -> _after_p1(w, F)
      [] cb = "_after_p2_for_powder"     -> _after_p2_for_powder(w, F)
      [] cb = "_after_dosing_for_powder" -> _after_dosing_for_powder(w, F)
      [] cb = "_after_p3_for_powder"     -> _after_p3_for_powder(w, F)
      [] cb = "_after_p4"                -> _after_p4(w, F)
      [] OTHER                           -> w

\* variant: every recognised state completes the phase
JsonPollAcceptsAny(canon) == canon # K_UNKNOWN

\* variant: the handle taken at the start of the phase is used at every tick
PollArmKept(w) == "Up"

\* arm = self.devices.get("ur3"), with is_connected(), at a program-state tick
PollArm(w) == w.devices.ur3

\* history of a program-state tick: the handle the shared map holds at the tick and
\* whether the state query raises
Tick(w, drv, F) ==
    [w EXCEPT !.obs.poll.tick = drv, !.obs.poll.arm = w.devices.ur3,
              !.obs.poll.raised = "state" \in F]

\* the poll's decision on a canonical state: TRUE completes the phase, FALSE re-arms
JsonPollAccepts(canon) ==
    IF canon = K_RUNNING \/ canon = K_PAUSED \/ canon = K_UNKNOWN THEN FALSE
    ELSE canon = K_STOPPED

\* the phase of the run is reported completed
Completed(w, drv) ==
    IF drv = "json" THEN [w EXCEPT !.obs.poll.done = TRUE, !.obs.jopen = NoneV]
    ELSE [w EXCEPT !.obs.poll.done = TRUE, !.obs.aopen = NoneV]

\* _poll_program_state up to its decision: re-armed, aborted, or phase completed
JsonPollHead(w0, F, fmt, past) ==
    LET wt == [w0 EXCEPT !.js._after_id = NoneV, !.timers = @ \ {"json_poll_program"},
                         !.obs.jpast = @ \/ past] IN
    IF ~wt.js._running THEN wt
    ELSE
    LET w == Tick(wt, "json", F) IN
    IF w.js._waiting_for # "program" THEN _abort(w, "unexpected_state")
    ELSE IF PollArm(w) # "Up" THEN _abort(w, "not_connected")
    ELSE IF "state" \in F THEN _abort(w, "read_failed")
    ELSE
    LET raw   == ProgramStateReply(w.robot, fmt)
        canon == IF "canon" \in F THEN ClassifyState(Strip(raw)) ELSE _canon_prog_state(raw)
        w1    == [w EXCEPT !.obs.poll = [@ EXCEPT !.drv = "json", !.kind = "program",
                                                   !.canon = canon,
                                                   !.seen = w.obs.jseen,
                                                   !.grace = w.obs.jpast],
                           !.obs.jseen = @ \/ canon \in {K_RUNNING, K_PAUSED}]
    IN
    IF JsonPollAccepts(canon)
    THEN [Completed(_set_state(w1, "idle"), "json") EXCEPT !.js._waiting_for = NoneV]
    ELSE After([w1 EXCEPT !.js._after_id = "json_poll_program"], "json_poll_program")

\* ... and the continuation it calls when the phase completed
JsonPollTail(w, F) ==
    IF ~w.obs.poll.done THEN w
    ELSE OnDone(w.js._on_done_program, [w EXCEPT !.js._on_done_program = NoneV], F)

\* variant: the dosing phase is taken as over at the first tick
JsonDosingDoneAtOnce(thread) == TRUE

\* the dosing poll's decision: the phase is over when no worker thread is alive
JsonDosingDone(thread) == thread # "alive"

JsonDosingHead(w0) ==
    LET w == [w0 EXCEPT !.js._after_id = NoneV, !.timers = @ \ {"json_poll_dosing"}] IN
    IF ~w.js._running THEN w
    ELSE IF w.js._waiting_for # "dosing" THEN _abort(w, "unexpected_state")
    ELSE
    LET w1 == [w EXCEPT !.obs.poll = [NoPoll EXCEPT !.drv = "json", !.kind = "dosing",
                                                   !.alive = w.wb._dosing_thread = "alive"]] IN
    IF JsonDosingDone(w1.wb._dosing_thread)
    THEN [Completed(w1, "json") EXCEPT !.js._waiting_for = NoneV]
    ELSE After([w1 EXCEPT !.js._after_id = "json_poll_dosing"], "json_poll_dosing")

JsonDosingTail(w, F) ==
    IF ~w.obs.poll.done THEN w
    ELSE OnDone(w.js._on_done_dosing, [w EXCEPT !.js._on_done_dosing = NoneV], F)

on_start_plan(w0, F) ==
    LET w == StartRequest(w0) IN
    IF w.js._running \/ w.js.plan = <<>> THEN w
    ELSE LET w1 == _ensure_ur3_connected(w, F) IN
    IF ~ArmUsable(w1) THEN w1
    ELSE LET w2 == _ensure_scale_connected(w1, F) IN
    IF w2.devices.scale # "Up" THEN w2
    ELSE _start_vial_p1([w2 EXCEPT !.js._running = TRUE, !.js._waiting_for = NoneV,
                           !.js._current_phase = NoneV, !.js.cur_vial_idx = 0,
                           !.js.cur_powder_idx = 0,
                           !.obs.trace = <<>>, !.obs.jterminal = <<>>,
                           !.obs.jplan = w2.js.plan, !.obs.runs = @ + 1], F)

(***************************************************************************)
(* WinJsonAuto: loading a plan file                                        *)
(***************************************************************************)
\* A value of the document as json.load returns it: None, a string (its characters),
\* a number. A powder entry and a vial entry are dicts (dict = TRUE, a missing key reads
\* as None) or something else; "powders" and "vials" are a list (its items), None or a
\* number.
JNull   == [t |-> "null", s |-> <<>>, n |-> 0]
JStr(s) == [t |-> "str", s |-> s, n |-> 0]
JNum(n) == [t |-> "num", s |-> <<>>, n |-> n]

\* truth value of a document value, as "or" takes it
Truthy(v) == CASE v.t = "str" -> v.s # <<>>
               [] v.t = "num" -> v.n # 0
               [] OTHER       -> FALSE

\* a or b or c or ""
FirstTruthy(a, b, c) ==
    IF Truthy(a) THEN a ELSE IF Truthy(b) THEN b ELSE IF Truthy(c) THEN c ELSE JStr(<<>>)

RECURSIVE DigitsValue(_, _)
\* the value of a string of decimal digits
DigitsValue(s, acc) ==
    IF s = <<>> THEN acc
    ELSE DigitsValue(Tail(s),
                     10 * acc + (CHOOSE d \in 0..9 :
                                    <<"0","1","2","3","4","5","6","7","8","9">>[d + 1] = Head(s)))

\* float(v): a number as it is, a string of digits (blanks around it allowed) by its
\* value; anything else raises (TypeError, ValueError)
PyFloat(v) ==
    CASE v.t = "num" -> [exc |-> NoneV, x |-> v.n]
      [] v.t = "str" /\ Strip(v.s) # <<>>
                     /\ (\A i \in 1..Len(Strip(v.s)) :
                            Strip(v.s)[i] \in {"0","1","2","3","4","5","6","7","8","9"})
                     -> [exc |-> NoneV, x |-> DigitsValue(Strip(v.s), 0)]
      [] OTHER       -> [exc |-> "ValueError", x |-> 0]

\* the spelling of the vial ids the documents name
VialSpelling ==
    [id \in {"E1-3", "E2-1"} |->
        IF id = "E1-3" THEN <<"E","1","-","3">> ELSE <<"E","2","-","1">>]

\* the vial id spelled by the characters s
Intern(s) ==
    IF \E id \in DOMAIN VialSpelling : VialSpelling[id] = s
    THEN CHOOSE id \in DOMAIN VialSpelling : VialSpelling[id] = s
    ELSE "unknown"

RECURSIVE ParsePowders(_, _)
\* the loop of _parse_plan on the powders of a vial entry; an exception that is not
\* caught leaves the loop
ParsePowders(src, powders) ==
    IF src = <<>> THEN [exc |-> NoneV, out |-> powders]
    ELSE IF ~Head(src).dict THEN ParsePowders(Tail(src), powders)
    ELSE IF FirstTruthy(Head(src).name, JNull, JNull).t # "str"
    THEN [exc |-> "AttributeError", out |-> <<>>]
    ELSE IF PyFloat(Head(src).qty_mg).exc # NoneV THEN ParsePowders(Tail(src), powders)
    ELSE IF Strip(FirstTruthy(Head(src).name, JNull, JNull).s) = <<>>
            \/ PyFloat(Head(src).qty_mg).x <= 0
    THEN ParsePowders(Tail(src), powders)
    ELSE ParsePowders(Tail(src),
                      Append(powders,
                             [name   |-> Strip(FirstTruthy(Head(src).name, JNull, JNull).s),
                              qty_mg |-> PyFloat(Head(src).qty_mg).x]))

RECURSIVE ParseVials(_, _)
\* the loop of _parse_plan on the vial entries
ParseVials(src, plan) ==
    IF src = <<>> THEN [exc |-> NoneV, out |-> plan]
    ELSE IF ~Head(src).dict THEN ParseVials(Tail(src), plan)
    ELSE
    LET v   == Head(src)
        idv == FirstTruthy(v.vial_id, v.name, v.vial)
    IN
    IF idv.t # "str" THEN [exc |-> "AttributeError", out |-> <<>>]
    ELSE IF Strip(idv.s) = <<>> THEN ParseVials(Tail(src), plan)
    ELSE IF v.powders.t = "num" /\ v.powders.n # 0 THEN [exc |-> "TypeError", out |-> <<>>]
    ELSE
    LET pw == ParsePowders(IF v.powders.t = "list" THEN v.powders.items ELSE <<>>, <<>>) IN
    IF pw.exc # NoneV THEN pw
    ELSE IF pw.out = <<>> THEN ParseVials(Tail(src), plan)
    ELSE ParseVials(Tail(src),
                    Append(plan, [vial_id |-> Intern(Strip(idv.s)), powders |-> pw.out]))

_parse_plan(data) ==
    IF ~data.dict \/ data.vials.t # "list" THEN [exc |-> NoneV, out |-> <<>>]
    ELSE ParseVials(data.vials.items, <<>>)

\* on_load_json, once the file is chosen and read: an exception of _parse_plan leaves
\* the callback, an empty plan is refused
on_load_json(w0, data) ==
    LET r == _parse_plan(data)
        w == [w0 EXCEPT !.obs.load = [seen |-> TRUE, data |-> data, exc |-> r.exc,
                                      out |-> r.out, plan |-> w0.js.plan,
                                      cur_vial_idx |-> w0.js.cur_vial_idx,
                                      cur_powder_idx |-> w0.js.cur_powder_idx]]
    IN
    IF r.exc # NoneV \/ r.out = <<>> THEN w
    ELSE [w EXCEPT !.js.plan = r.out, !.js.cur_vial_idx = 0, !.js.cur_powder_idx = 0,
                   !.obs.reloads = IF w.js._running THEN @ + 1 ELSE @]

(***************************************************************************)
(* WinAuto: the fixed full-loop driver                                     *)
(***************************************************************************)
_abort_sequence(w, reason) ==
    IF ~w.au._seq_running THEN w
    ELSE LET w1 == [w EXCEPT !.au._seq_running = FALSE]
             w2 == IF w1.au._seq_after_id # NoneV
                   THEN [Cancel(w1, w1.au._seq_after_id) EXCEPT !.au._seq_after_id = NoneV]
                   ELSE w1
         IN EndRun([w2 EXCEPT !.obs.step.outcome =
                                  IF @ = NoneV THEN reason ELSE @], "auto", "aborted")

_finish_sequence(w) ==
    IF ~w.au._seq_running THEN w
    ELSE EndRun([w EXCEPT !.au._seq_running = FALSE, !.au._seq_after_id = NoneV],
                "auto", "finished")

AutoStarted(w, ph) ==
    [Started(w, "auto", ph) EXCEPT !.obs.atrace = Append(@, ph),
                                   !.obs.aopen = ph]

\* _wait_robot_stopped: fresh start_ts and seen_active, first poll after 300 ms
_wait_robot_stopped(w, step_name, next_step) ==
    IF ~w.au._seq_running THEN w
    ELSE After([w EXCEPT !.au.step_name = step_name, !.au.next_step = next_step,
                         !.au.seen_active = FALSE, !.obs.apast = FALSE,
                         !.au._seq_after_id = "auto_poll"], "auto_poll")

\* the end of _start_p1 .. _start_p4, on what the helper left: play, robot view set to
\* running, wait for the program to stop
AutoPlayAndWatch(wh, F, ph, next_step) ==
    IF wh.exc # NoneV THEN _abort_sequence(Caught(wh), "helper_failed")
    ELSE IF "state_before" \in F THEN _abort_sequence(wh, "play_failed")
    ELSE
    LET wq == ArmPlay(wh, F) IN
    IF wq.exc # NoneV THEN _abort_sequence(Caught(wq), "play_failed")
    ELSE _wait_robot_stopped(AutoStarted(_set_state(wq, "running"), ph), ph, next_step)

\* the common body of _start_p1 .. _start_p4
AutoStartStep(w0, F, ph, program, next_step) ==
    IF ~w0.au._seq_running THEN w0
    ELSE
    LET w == Begin(w0, "auto", ph) IN
    IF ~ArmUsable(w) THEN _abort_sequence(w, "not_connected")
    ELSE
    LET wl == ArmLoad(w, F, program) IN
    IF wl.exc # NoneV THEN _abort_sequence(Caught(wl), "load_failed")
    ELSE IF "load_notfound" \in F THEN _abort_sequence(wl, "load_failed")
    ELSE AutoPlayAndWatch(Helper(ph, on_refresh_programs(wl, F), F), F, ph, next_step)

_start_p1(w, F) == AutoStartStep(w, F, "P1", P1_PROGRAM, "P2")
_start_p2(w, F) == AutoStartStep(w, F, "P2", P2_PROGRAM, "DOSING")
_start_p3(w, F) == AutoStartStep(w, F, "P3", P3_PROGRAM, "P4")
_start_p4(w, F) == AutoStartStep(w, F, "P4", P4_PROGRAM, NoneV)

auto_start_dosing(w0, F) ==
    IF ~w0.au._seq_running THEN w0
    ELSE LET w == Begin(w0, "auto", "DOSING") IN
    IF w.devices.scale # "Up" THEN _abort_sequence(w, "not_connected")
    ELSE After(AutoStarted(on_start_dosing_job(w, F), "DOSING"), "auto_check_dosing_started")

\* (_on_dosing_done: P3 is started 100 ms later)

_wait_dosing_finished(w0) ==
    LET w == [w0 EXCEPT !.timers = @ \ {"auto_wait_dosing"}] IN
    IF ~w.au._seq_running THEN w
    ELSE
    LET w1 == [w EXCEPT !.obs.poll = [NoPoll EXCEPT !.drv = "auto", !.kind = "dosing",
                                                   !.alive = w.wb._dosing_thread = "alive"]] IN
    IF w1.wb._dosing_thread = NoneV THEN After(Completed(w1, "auto"), "auto_start_p3")
    ELSE IF w1.wb._dosing_thread = "alive"
    THEN After([w1 EXCEPT !.au._seq_after_id = "auto_wait_dosing"], "auto_wait_dosing")
    ELSE After(Completed(w1, "auto"), "auto_start_p3")

_check_dosing_started(w0) ==
    LET w == [w0 EXCEPT !.timers = @ \ {"auto_check_dosing_started"}] IN
    IF ~w.au._seq_running THEN w
    ELSE IF w.wb._dosing_thread # "alive" THEN _abort_sequence(w, "dosing_not_started")
    ELSE _wait_dosing_finished(w)

\* the decision of _poll on a canonical state: "done", "early" (re-poll after 200 ms)
\* or "later" (re-poll after 700 ms); past: the clock reads 2 s or more since start_ts
AutoPollDecision(canon, seen_active, past) ==
    IF canon = K_STOPPED
    THEN IF ~seen_active /\ ~past THEN "early" ELSE "done"
    ELSE "later"

AutoNext(w, F) ==
    CASE w.au.next_step = "P2"     -> _start_p2(w, F)
      [] w.au.next_step = "DOSING" -> auto_start_dosing(w, F)
      [] w.au.next_step = "P3"     -> _start_p3(w, F)
      [] w.au.next_step = "P4"     -> _start_p4(w, F)
      [] OTHER                     -> _finish_sequence(w)

\* the closure _poll of _wait_robot_stopped, up to its decision
AutoPollHead(w0, F, fmt, past) ==
    LET wt == [w0 EXCEPT !.timers = @ \ {"auto_poll"},
                         !.obs.apast = @ \/ past] IN
    IF ~wt.au._seq_running THEN wt
    ELSE
    LET w == Tick(wt, "auto", F) IN
    IF PollArm(w) # "Up" THEN _abort_sequence(w, "not_connected")
    ELSE IF "state" \in F THEN _abort_sequence(w, "read_failed")
    ELSE
    LET raw   == ProgramStateReply(w.robot, fmt)
        \* str(raw).strip().upper() when _canon_prog_state is not usable
        canon == IF "canon" \in F THEN UpperStr(Strip(raw)) ELSE _canon_prog_state(raw)
        seen  == w.au.seen_active \/ canon \in {K_RUNNING, K_PAUSED}
        w1    == [w EXCEPT !.au.seen_active = seen,
                           !.obs.poll = [@ EXCEPT !.drv = "auto", !.kind = "program",
                                                   !.canon = canon, !.seen = seen,
                                                   !.grace = w.obs.apast]]
        d     == AutoPollDecision(canon, seen, w.obs.apast)
    IN
    IF d = "early"
    THEN After([w1 EXCEPT !.au._seq_after_id = "auto_poll"], "auto_poll")
    ELSE IF d = "done" THEN Completed(_set_state(w1, "idle"), "auto")
    ELSE After([w1 EXCEPT !.au._seq_after_id = "auto_poll"], "auto_poll")

\* ... and the next step it starts when the program is over
AutoPollTail(w, F) == IF ~w.obs.poll.done THEN w ELSE AutoNext(w, F)

on_test_full_loop(w0, F) ==
    LET w == StartRequest(w0) IN
    IF w.au._seq_running THEN w
    ELSE LET w1 == _ensure_ur3_connected(w, F) IN
    IF ~ArmUsable(w1) THEN w1
    ELSE LET w2 == _ensure_scale_connected(w1, F) IN
    IF w2.devices.scale # "Up" THEN w2
    ELSE _start_p1([w2 EXCEPT !.au._seq_running = TRUE, !.au._seq_after_id = NoneV,
                              !.obs.atrace = <<>>, !.obs.aterminal = <<>>,
                              !.obs.runs = @ + 1], F)

(***************************************************************************)
(* WinRobotArm: manual Play, heartbeat                                     *)
(***************************************************************************)
RECURSIVE LastComponent(_)
\* loaded_path.split("/")[-1]
LastComponent(path) ==
    IF Contains(path, <<"/">>) THEN LastComponent(Tail(path)) ELSE path

\* which helper on_play picks from the name of the loaded program
PlayKind(loaded_path) ==
    LET low == LowerStr(LastComponent(loaded_path)) IN
    IF Contains(low, <<"p","1">>) THEN "P1"
    ELSE IF Contains(low, <<"p","2">>) THEN "P2"
    ELSE IF Contains(low, <<"p","3">>) THEN "P3"
    ELSE IF Contains(low, <<"p","4">>) THEN "P4"
    ELSE "OTHER"

on_play(w0, F) ==
    LET kind == PlayKind(w0.ui.var_program)
        w    == [Begin(w0, "man", kind) EXCEPT !.obs.runs = @ + 1]
    IN
    IF ~ArmUsable(w) THEN [w EXCEPT !.ui.var_status = "Error",
                                    !.obs.step.outcome = "not_connected"]
    ELSE
    LET wh == Helper(kind, w, F) IN
    IF wh.exc # NoneV THEN [Caught(wh) EXCEPT !.ui.var_status = "Error",
                                              !.obs.step.outcome = "helper_failed"]
    ELSE IF "state_before" \in F THEN [wh EXCEPT !.ui.var_status = "Error",
                                          !.obs.step.outcome = "play_failed"]
    ELSE
    LET wq == ArmPlay(wh, F) IN
    IF wq.exc # NoneV THEN [Caught(wq) EXCEPT !.ui.var_status = "Error",
                                              !.obs.step.outcome = "play_failed"]
    ELSE Started(_set_state(wq, "running"), "man", kind)

\* the combo box of programs: the operator picks one, it is loaded
_on_program_selected(w, F, prog) ==
    IF ~ArmUsable(w) THEN w
    ELSE on_load_selected_program([w EXCEPT !.ui.var_selected_program = prog], F)

\* on_stop (the Stop button, and Escape anywhere in the window): the dashboard stop,
\* then the view goes idle; estop keeps the number of the run it was pressed in
on_stop(w0, F) ==
    LET w == [w0 EXCEPT !.obs.estop = IF w0.js._running \/ w0.au._seq_running
                                      THEN w0.obs.runs ELSE @] IN
    IF ~ArmUsable(w) THEN _set_state([w EXCEPT !.ui.var_status = "Error"], "idle")
    ELSE LET w1 == ArmStop(w, F) IN
         IF w1.exc # NoneV THEN _set_state([Caught(w1) EXCEPT !.ui.var_status = "Error"], "idle")
         ELSE IF "stop_lock" \in F THEN _force_need_reconnect(Cmd(w, "stop"))
         ELSE _set_state(w1, "idle")

\* heartbeat of the robot view: a failed ping drops the handle
_watch_period(w, F) ==
    IF ArmUsable(w) /\ "ping" \notin F THEN [w EXCEPT !.ui.var_status = "Connected"]
    ELSE [_set_state(w, "idle") EXCEPT !.devices.ur3 = NoneV,
                                       !.ui.var_status = "Disconnected"]

(***************************************************************************)
(* Inputs                                                                  *)
(***************************************************************************)
\* the documents are built of dicts and lists
PowderEntry(name, qty_mg) == [dict |-> TRUE, name |-> name, qty_mg |-> qty_mg]
VialEntry(vial_id, name, powders) ==
    [dict |-> TRUE, vial_id |-> vial_id, name |-> name, vial |-> JNull, powders |-> powders]
JList(items) == [t |-> "list", items |-> items]
Document(vials) == [dict |-> TRUE, vials |-> vials]

\* the plan files of the sessions: one vial with two powders (the first named as slot
\* S1's label in another case), two vials with one powder each
PlanFiles ==
    { Document(JList(<< VialEntry(JStr(VialSpelling["E1-3"]), JNull,
                          JList(<< PowderEntry(JStr(<<"n","a","h","c","o","3">>), JNum(10)),
                                   PowderEntry(JStr(StorageLabels["S2"]), JNum(20)) >>)) >>)),
      Document(JList(<< VialEntry(JStr(VialSpelling["E1-3"]), JNull,
                          JList(<< PowderEntry(JStr(StorageLabels["S1"]), JNum(10)) >>)),
                        VialEntry(JStr(VialSpelling["E2-1"]), JNull,
                          JList(<< PowderEntry(JStr(StorageLabels["S2"]), JNum(20)) >>)) >>)) }

ValidId == <<JStr(VialSpelling["E1-3"]), JNull>>
ValidPowders ==
    JList(<< PowderEntry(JStr(StorageLabels["S1"]), JNum(10)),
             PowderEntry(JStr(<<" ">> \o StorageLabels["S2"]), JStr(<<"2","0">>)) >>)
\* the documents a load is tried on. Ids: spelled, padded and given under "name", blank,
\* a number. Powders: two valid ones; a zero quantity, a non-dict and a valid one; a
\* blank name and a quantity that is no number; a name that is a number; no list.
IdForms ==
    { ValidId,
      <<JNull, JStr(<<" ">> \o VialSpelling["E2-1"] \o <<" ">>)>>,
      <<JStr(<<" ", " ">>), JNull>>,
      <<JNum(7), JNull>> }
PowderForms ==
    { ValidPowders,
      JList(<< PowderEntry(JStr(StorageLabels["S1"]), JNum(0)),
               [dict |-> FALSE, name |-> JNull, qty_mg |-> JNull],
               PowderEntry(JStr(StorageLabels["S2"]), JNum(20)) >>),
      JList(<< PowderEntry(JStr(<<" ">>), JNum(10)),
               PowderEntry(JStr(StorageLabels["S1"]), JStr(<<"a">>)) >>),
      JList(<< PowderEntry(JNum(5), JNum(10)) >>),
      [t |-> "null", items |-> <<>>] }
\* the vial entries: every id form with valid powders, the spelled id with every form
\* of powders, and an entry that is no dict
Entries ==
    {VialEntry(id[1], id[2], ValidPowders) : id \in IdForms}
        \cup {VialEntry(ValidId[1], ValidId[2], pw) : pw \in PowderForms}
        \cup {[dict |-> FALSE, vial_id |-> JNull, name |-> JNull, vial |-> JNull,
               powders |-> [t |-> "null", items |-> <<>>]]}
Docs ==
    {Document(JList(items)) : items \in UNION {[1..n -> Entries] : n \in 0..MaxEntries}}
        \cup {Document([t |-> "null", items |-> <<>>]),
              [dict |-> FALSE, vials |-> [t |-> "null", items |-> <<>>]]}

\* the device calls of a callback that can fail, by the part of the callback
CallFaults == [connect |-> {"connect", "scale_connect"},
               play    |-> {"state_before", "stop", "write", "play", "play_lock"},
               poll    |-> {"state", "canon"}]

\* the device calls a step makes, by the phase it starts
HelperFaults(ph) ==
    CASE ph \in {"P1", "P3"} -> {"door_read", "open_door", "pan_read", "pan_nosample"}
      [] ph \in {"P2", "P4"} -> {"head_read"}
      [] OTHER               -> {}
StepFaults(ph) ==
    CASE ph = NoneV    -> {}
      [] ph = "DOSING" -> {"close_door", "head_read", "pan_read", "pan_nosample",
                           "job", "job_outcome", "job_start_error", "job_errors"}
      [] OTHER         -> {"list", "list_missing", "load_raise", "load_notfound", "load_lock"}
                              \cup HelperFaults(ph) \cup CallFaults.play

\* the device calls that fail within one callback
RECURSIVE UpTo(_, _)
UpTo(U, k) == IF k = 0 THEN {{}}
              ELSE UpTo(U, k - 1) \cup {F \cup {f} : F \in UpTo(U, k - 1), f \in U}
\* (a session in which the operator uses every tab, and one in which the robot alone
\* moves the cell, is explored with devices that answer)
\* (a session followed to the end of its run is explored with devices that answer, and
\* with WinRobotArm either holding the classifier the drivers call or, as in
\* winRobotArm.py, not holding it: the call raises at every tick)
Faults(U) == IF operator \in {"any", "cell", "run"} THEN {{}}
             ELSE IF operator = "run_fallback" THEN {U \cap {"canon"}}
             ELSE UpTo(U, MaxFaults)


(***************************************************************************)
(* Initial state: the application just built, nothing connected            *)
(***************************************************************************)
Built(scale, cell, uses) ==
    /\ devices = [ur3 |-> NoneV, scale |-> scale]
    /\ robot = [loaded |-> <<>>, state |-> "STOPPED", pending |-> FALSE,
                VialsNB |-> 0, DispNB |-> 0]
    /\ balance = cell
    /\ ui = [var_vial_index_c |-> -1, var_vial_index_f |-> -1, var_storage_index |-> -1,
             var_program |-> <<>>, var_selected_program |-> <<>>, cmb_programs |-> <<>>,
             _state |-> "idle", var_status |-> "Disconnected"]
    /\ wb = [var_d_vial |-> "Vessel1", var_d_substance |-> <<>>, var_d_target |-> 5,
             var_d_tu |-> "mg", _dosing_thread |-> NoneV, _dosing_stop |-> NoneV,
             workers |-> 0, worker |-> NoWorker]
    /\ js = [plan |-> <<>>, cur_vial_idx |-> 0, cur_powder_idx |-> 0, _running |-> FALSE,
             _waiting_for |-> NoneV, _current_phase |-> NoneV, _after_id |-> NoneV,
             _on_done_program |-> NoneV, _on_done_dosing |-> NoneV]
    /\ au = [_seq_running |-> FALSE, _seq_after_id |-> NoneV, step_name |-> NoneV,
             next_step |-> NoneV, seen_active |-> FALSE]
    /\ timers = {}
    /\ operator \in uses
    /\ obs = [cmds |-> <<>>, step |-> NoStep, poll |-> NoPoll, started |-> <<>>,
              trace |-> <<>>, atrace |-> <<>>, jopen |-> NoneV, aopen |-> NoneV,
              jterminal |-> <<>>, aterminal |-> <<>>, jplan |-> <<>>,
              jpast |-> FALSE, apast |-> FALSE, jseen |-> FALSE, runs |-> 0,
              job |-> NoJob, wlog |-> <<>>, reopens |-> 0, cancel |-> <<>>,
              start |-> NoneV, reloads |-> 0, load |-> NoLoad, estop |-> 0]

Init == Built(NoneV, [door |-> DoorClosedWidth, head |-> <<>>, panMg |-> 0],
              {"manual", "loop", "plan"})

(***************************************************************************)
(* Actions: one per callback of the Tk main loop, and the environment      *)
(***************************************************************************)
\* The cell (door, dosing head, pan) is moved by the robot and by the operator at any
\* time; a change shows only when a step reads the balance, so it is drawn right before
\* the step, for the parts of the cell that the step of this phase reads.
\* (door closed or open; no head, the head of slot S1, a head no slot is labelled for;
\* pan empty or loaded with a vial, in mg)
\* (in a session in which the robot alone moves the cell, the cell is as the programs
\* left it)
CellsFor(ph, bal) ==
    IF operator \in {"cell", "run", "run_fallback"} THEN {bal} ELSE
    {b \in [door  : {DoorClosedWidth, DoorOpenWidth},
            head  : {<<>>, StorageLabels["S1"], <<"S","u","c","r","e">>},
            panMg : {0, 15000}] :
        /\ ph \notin {"P1", "P3"} \/ operator = "any" => b.door = bal.door
        /\ ph \notin {"P2", "P4", "DOSING"} => b.head = bal.head
        /\ ph \notin {"P1", "P3", "DOSING"} => b.panMg = bal.panMg}
Cell(w, b) == [w EXCEPT !.balance = b]

\* the form of the controller's replies to programState
\* (one controller answers in one form: a session followed to the end of its run is
\* explored with the form of the example in _wait_robot_stopped, "STOPPED P1Bastien.urp")
ReplyFormats == IF operator \in {"run", "run_fallback"} THEN {"named"}
                ELSE {"bare", "named", "padded"}

\* --- operator, plan tab ---
OnLoadJson   == \E data \in PlanFiles : Apply(on_load_json(Now, data))
OnStartPlan  ==
    /\ js.plan # <<>>
    /\ \E F \in Faults(CallFaults.connect \cup StepFaults("P1")), b \in CellsFor("P1", balance) :
          Apply(on_start_plan(Cell(Now, b), F))

\* --- timers of the plan driver ---
PollProgramState ==
    /\ "json_poll_program" \in timers
    /\ \E h \in {JsonPollHead(Now, Fp, fmt, past) :
                    Fp \in Faults(CallFaults.poll), fmt \in ReplyFormats, past \in BOOLEAN} :
          IF h.obs.poll.done
          THEN LET ph == JsonPollTail(h, {}).obs.step.ph IN
               \E F \in Faults(StepFaults(ph)), b \in CellsFor(ph, balance) :
                  Apply(JsonPollTail(Cell(h, b), F))
          ELSE Apply(h)

PollDosingState ==
    /\ "json_poll_dosing" \in timers
    /\ LET h == JsonDosingHead(Now) IN
          IF h.obs.poll.done
          THEN LET ph == JsonDosingTail(h, {}).obs.step.ph IN
               \E F \in Faults(StepFaults(ph)), b \in CellsFor(ph, balance) :
                  Apply(JsonDosingTail(Cell(h, b), F))
          ELSE Apply(h)

\* --- operator, auto tab, and the timers of the fixed driver ---
OnTestFullLoop ==
    /\ TRUE
    /\ \E F \in Faults(CallFaults.connect \cup StepFaults("P1")), b \in CellsFor("P1", balance) :
          Apply(on_test_full_loop(Cell(Now, b), F))

AutoPoll ==
    /\ "auto_poll" \in timers
    /\ \E h \in {AutoPollHead(Now, Fp, fmt, past) :
                    Fp \in Faults(CallFaults.poll), fmt \in ReplyFormats, past \in BOOLEAN} :
          IF h.obs.poll.done
          THEN LET ph == AutoPollTail(h, {}).obs.step.ph IN
               \E F \in Faults(StepFaults(ph)), b \in CellsFor(ph, balance) :
                  Apply(AutoPollTail(Cell(h, b), F))
          ELSE Apply(h)

CheckDosingStarted ==
    /\ "auto_check_dosing_started" \in timers
    /\ Apply(_check_dosing_started(Now))

WaitDosingFinished ==
    /\ "auto_wait_dosing" \in timers
    /\ Apply(_wait_dosing_finished(Now))

StartP3AfterDosing ==
    /\ "auto_start_p3" \in timers
    /\ \E F \in Faults(StepFaults("P3")), b \in CellsFor("P3", balance) :
          Apply(_start_p3(Cell([Now EXCEPT !.timers = @ \ {"auto_start_p3"}], b), F))

\* --- operator, manual tab ---
\* the boxes the operator ticks: none, or index 2 of the E group / of the storage grid
\* (during a plan run: index 0 of the E group, a vial no plan names)
SelectVial      == \E i \in IF operator = "any" THEN {0} ELSE {-1, 2} :
                      Apply([Now EXCEPT !.ui.var_vial_index_c = i])
SelectStorage   == \E i \in {-1, 2} : Apply([Now EXCEPT !.ui.var_storage_index = i])
ProgramSelected == \E prog \in ControllerPrograms,
                      F \in Faults({"load_raise", "load_notfound", "load_lock"}) :
                      Apply(_on_program_selected(Now, F, prog))
OnConnect       == \E F \in Faults({"connect"}) : Apply(on_connect(Now, F))
ScaleConnect    == \E F \in Faults({"scale_connect"}) : Apply(scale_on_connect(Now, F))
OnPlay          ==
    LET ph == PlayKind(ui.var_program) IN
    \E F \in Faults(HelperFaults(ph) \cup CallFaults.play), b \in CellsFor(ph, balance) :
        Apply(on_play(Cell(Now, b), F))
WatchPeriod     == \E F \in Faults({"ping"}) : Apply(_watch_period(Now, F))
OnStop          == \E F \in Faults({"stop", "stop_lock"}) : Apply(on_stop(Now, F))

\* --- the robot controller ---
RobotStarts ==
    /\ robot.pending
    /\ Apply([Now EXCEPT !.robot.pending = FALSE, !.robot.state = "PLAYING"])

RobotEnds ==
    /\ robot.state = "PLAYING"
    /\ Apply([Now EXCEPT !.robot.state = "STOPPED"])

RobotPauses ==
    /\ robot.state = "PLAYING"
    /\ Apply([Now EXCEPT !.robot.state = "PAUSED"])

RobotResumes ==
    /\ robot.state = "PAUSED"
    /\ Apply([Now EXCEPT !.robot.state = "PLAYING"])

\* --- the dosing worker thread returns ---
DosingWorkerEnds ==
    /\ wb._dosing_thread = "alive"
    /\ Apply([Now EXCEPT !.wb._dosing_thread = "dead", !.wb.workers = @ - 1,
                          !.wb.worker.pc = "done"])

\* no run of either driver is going on
Idle == ~js._running /\ ~au._seq_running

\* something can still happen in the session: a run can be started or is going on, or
\* the robot is still moving after the run of a driver has ended
Live == \/ obs.runs < MaxRuns \/ ~Idle \/ timers # {} \/ wb._dosing_thread = "alive"
        \/ /\ obs.jterminal # <<>> \/ obs.aterminal # <<>>
           /\ robot.pending \/ robot.state # "STOPPED"

\* The operator works in one tab per session: the plan tab, the auto tab (after ticking
\* vial and storage in the manual view), or the manual view alone; and leaves the
\* widgets alone while a run is going on.
Next ==
    \/ (operator = "plan" /\ Idle /\ obs.runs < MaxRuns /\ OnLoadJson)
    \/ (operator = "plan" /\ obs.runs < MaxRuns /\ ~js._running /\ OnStartPlan)
    \/ PollProgramState
    \/ PollDosingState
    \/ (operator = "loop" /\ obs.runs < MaxRuns /\ ~au._seq_running /\ OnTestFullLoop)
    \/ AutoPoll
    \/ CheckDosingStarted
    \/ WaitDosingFinished
    \/ StartP3AfterDosing
    \/ (operator # "plan" /\ Idle /\ obs.runs < MaxRuns /\ SelectVial)
    \/ (operator # "plan" /\ Idle /\ obs.runs < MaxRuns /\ SelectStorage)
    \/ (operator = "manual" /\ obs.runs < MaxRuns /\ OnConnect)
    \/ (operator = "manual" /\ obs.runs < MaxRuns /\ ScaleConnect)
    \/ (operator = "manual" /\ obs.runs < MaxRuns /\ ProgramSelected)
    \/ (operator = "manual" /\ obs.runs < MaxRuns /\ OnPlay)
    \/ (Live /\ WatchPeriod)
    \/ (Live /\ RobotStarts)
    \/ (Live /\ RobotEnds)
    \/ (Live /\ RobotPauses)
    \/ (Live /\ RobotResumes)
    \/ (Live /\ DosingWorkerEnds)

Spec == Init /\ [][Next]_vars

(***************************************************************************)
(* The operator uses every tab at any time, a run going on or not          *)
(***************************************************************************)
\* The operator loads a plan and starts it; while the run goes on the operator loads a
\* plan again, ticks another vial, presses Start again, presses the Start of the auto
\* tab. (The session is followed up to its second accepted Start.)
TabsNext ==
    \/ (obs.runs < MaxStarts /\ (~js._running \/ obs.reloads < MaxReloads) /\ OnLoadJson)
    \/ (obs.runs < MaxStarts /\ OnStartPlan)
    \/ (obs.runs < MaxStarts /\ js._running /\ OnTestFullLoop)
    \/ (obs.runs < MaxStarts /\ PollProgramState)
    \/ (obs.runs < MaxStarts /\ PollDosingState)
    \/ (obs.runs < MaxStarts /\ js._waiting_for = "dosing" /\ SelectVial)
    \/ (obs.runs < MaxStarts /\ RobotStarts)
    \/ (obs.runs < MaxStarts /\ RobotEnds)
    \/ (obs.runs < MaxStarts /\ DosingWorkerEnds)

TabsSpec ==
    /\ Built(NoneV, [door |-> DoorClosedWidth, head |-> <<>>, panMg |-> 0], {"any"})
    /\ [][TabsNext]_vars

(***************************************************************************)
(* A plan run with devices that answer, during which the operator presses  *)
(* Stop (or Escape) once while the run waits for a robot program           *)
(***************************************************************************)
StopNext ==
    \/ (Idle /\ obs.runs < MaxRuns /\ OnLoadJson)
    \/ (obs.runs < MaxRuns /\ ~js._running /\ OnStartPlan)
    \/ PollProgramState
    \/ PollDosingState
    \/ (js._waiting_for = "program" /\ obs.estop < obs.runs /\ OnStop)
    \/ (Live /\ RobotStarts)
    \/ (Live /\ RobotEnds)
    \/ (Live /\ DosingWorkerEnds)

StopSpec ==
    /\ Built(NoneV, [door |-> DoorClosedWidth, head |-> <<>>, panMg |-> 0], {"any"})
    /\ [][StopNext]_vars

(***************************************************************************)
(* A plan run in a cell that the robot alone moves: every device answers,  *)
(* every program runs to its end, every dosing job is accepted and ends    *)
(***************************************************************************)
\* what the program that ends has done to the cell: P1 has put the vial on the pan, P2
\* has mounted the dosing head of the slot in DispNB, P3 has taken the vial off the pan,
\* P4 has taken the dosing head back to its slot
ProgramEffect(r, bal) ==
    CASE r.loaded = P1_PROGRAM -> [bal EXCEPT !.panMg = 15000]
      [] r.loaded = P2_PROGRAM ->
            [bal EXCEPT !.head = StorageLabels[CHOOSE sid \in DOMAIN StorageNumber :
                                                  StorageNumber[sid] = r.DispNB]]
      [] r.loaded = P3_PROGRAM -> [bal EXCEPT !.panMg = 0]
      [] r.loaded = P4_PROGRAM -> [bal EXCEPT !.head = <<>>]
      [] OTHER                 -> bal

ProgramEnds ==
    /\ robot.state = "PLAYING"
    /\ Apply([Now EXCEPT !.robot.state = "STOPPED",
                         !.balance = ProgramEffect(robot, balance)])

\* (the controller starts a program before the next tick of the driver reads its state)
CellNext ==
    \/ (Idle /\ obs.runs < MaxRuns /\ OnLoadJson)
    \/ (obs.runs < MaxRuns /\ ~js._running /\ OnStartPlan)
    \/ (~robot.pending /\ PollProgramState)
    \/ (wb._dosing_thread # NoneV /\ PollDosingState)
    \/ (Live /\ RobotStarts)
    \/ (Live /\ ProgramEnds)
    \/ (Live /\ DosingWorkerEnds)

CellSpec ==
    /\ Built(NoneV, [door |-> DoorClosedWidth, head |-> <<>>, panMg |-> 0], {"cell"})
    /\ [][CellNext]_vars

(***************************************************************************)
(* A run of either driver followed to its end, in a cell that the robot    *)
(* alone moves: the main loop fires a timer that is due, the controller    *)
(* starts a program that was played, a program runs to its end, the worker *)
(* thread of the balance returns, and the 2 s window of a step passes      *)
(***************************************************************************)
RunNext ==
    \/ (Idle /\ obs.runs < MaxRuns /\ OnLoadJson)
    \/ (Idle /\ obs.runs < MaxRuns /\ OnStartPlan)
    \/ PollProgramState
    \/ PollDosingState
    \/ (Idle /\ obs.runs < MaxRuns /\ SelectVial)
    \/ (Idle /\ obs.runs < MaxRuns /\ SelectStorage)
    \/ (Idle /\ obs.runs < MaxRuns /\ OnTestFullLoop)
    \/ AutoPoll
    \/ CheckDosingStarted
    \/ WaitDosingFinished
    \/ StartP3AfterDosing
    \/ (Live /\ RobotStarts)
    \/ (Live /\ ProgramEnds)
    \/ (Live /\ DosingWorkerEnds)

\* the main loop has served the timers: none is armed, or the last callback was a tick
\* of a wait loop that armed its timer again (for a program tick of the fixed-loop
\* driver: with the 2 s window of the step over)
TimerServed ==
    \/ timers = {}
    \/ /\ obs.poll.kind # NoneV /\ ~obs.poll.done
       /\ (obs.poll.drv = "auto" /\ obs.poll.kind = "program") => obs.apast

\* the controller and the worker thread go on
DevicesGoOn == Live /\ (RobotStarts \/ ProgramEnds \/ DosingWorkerEnds)

\* Fairness: a program that was played starts and runs to its end and the worker thread
\* returns (weak fairness of the devices' steps); the main loop fires a timer that is
\* due and time passes (a timer does not stay armed for ever with its callback not run
\* since the last change: written on the states, a tick that changes nothing being a
\* stuttering step).
RunSpec ==
    /\ Built(NoneV, [door |-> DoorClosedWidth, head |-> <<>>, panMg |-> 0],
             {"run", "run_fallback"})
    /\ [][RunNext]_vars
    /\ WF_vars(DevicesGoOn)
    /\ []<>TimerServed

(***************************************************************************)
(* The manual view on its own: the operator ticks any box of the two vial  *)
(* groups, connects, loads a program and plays it                          *)
(***************************************************************************)
TickVial ==
    \E g \in {"c", "f"}, i \in -1..(Len(VialIdsC) - 1) :
        Apply(IF g = "c" THEN [Now EXCEPT !.ui.var_vial_index_c = i]
              ELSE [Now EXCEPT !.ui.var_vial_index_f = i])

RackNext ==
    \/ (obs.runs < MaxRuns /\ TickVial)
    \/ (obs.runs < MaxRuns /\ OnConnect)
    \/ (obs.runs < MaxRuns /\ ProgramSelected)
    \/ (obs.runs < MaxRuns /\ OnPlay)

\* the balance is connected from the start
RackSpec ==
    /\ Built("Up", [door |-> DoorClosedWidth, head |-> <<>>, panMg |-> 0], {"manual"})
    /\ [][RackNext]_vars

(***************************************************************************)
(* The plan tab on its own: plan files are loaded, one after the other     *)
(***************************************************************************)
ParseNext == \E data \in Docs : Apply(on_load_json(Now, data))

ParseSpec ==
    /\ Built(NoneV, [door |-> DoorClosedWidth, head |-> <<>>, panMg |-> 0], {"plan"})
    /\ [][ParseNext]_vars

(***************************************************************************)
(* The balance tab on its own: Start and Cancel of a dosing job, and the   *)
(* worker thread that consumes the notifications of the balance            *)
(***************************************************************************)
\* Start dosing job, by the button or by a driver
OnStartDosingJob ==
    /\ obs.runs < MaxJobs
    /\ \E F \in Faults(StepFaults("DOSING")) :
          Apply(on_start_dosing_job([Now EXCEPT !.obs.runs = @ + 1], F))

\* Cancel
\* (how each cancel call ends: its Outcome, or an exception)
OnCancelDosingJob ==
    \E r1 \in {"Success", NoneV, "Error", "raise"}, r2 \in {"Success", "Error", "raise"}, r3 \in {"Success"} :
        Apply(on_cancel_dosing_job(Now, <<r1, r2, r3>>))

\* the worker thread at the head of the loop of auto_confirm_dosing_notifications
WorkerHead ==
    /\ wb.worker.pc = "top"
    /\ wb._dosing_stop = "set" \/ wb.worker.polls < MaxPolls
    /\ Apply(ConsumerHead(Now))

\* the long poll of the worker thread comes back
WorkerPoll ==
    /\ wb.worker.pc = "wait"
    /\ \E res \in {[end |-> "Session", batch |-> <<>>], [end |-> "Other", batch |-> <<>>]}
                     \cup {[end |-> "batch", batch |-> b] :
                              b \in UNION {[1..n -> Notifications] : n \in 0..MaxBatch}} :
          Apply(ConsumerPoll(Now, res))

\* the worker thread inside the for loop on the batch
\* (outs: how the first request of a confirm ends and, after a session loss, the second)
WorkerProcess ==
    /\ wb.worker.pc = "batch"
    /\ \E outs \in {<<"ok">>, <<"Other">>, <<"Session", "ok">>, <<"Session", "Session">>,
                     <<"Session", "Other">>} :
          Apply(ConsumerProcess(Now, outs))

\* the heartbeat of the balance window
ScaleWatchPeriod == \E F \in Faults({"door_read"}) : Apply(scale_watch_period(Now, F))

BalNext ==
    \/ OnStartDosingJob
    \/ OnCancelDosingJob
    \/ ScaleWatchPeriod
    \/ WorkerHead
    \/ WorkerPoll
    \/ WorkerProcess

\* The application starts with the balance connected, a dosing head mounted and a vial
\* on the pan. The worker is a thread of its own and a long poll ends after 10 s at the
\* latest: a step the worker can take is taken.
BalSpec ==
    /\ Built("Up", [door |-> DoorClosedWidth, head |-> StorageLabels["S1"],
                    panMg |-> 15000], {"manual"})
    /\ [][BalNext]_vars
    /\ WF_vars(WorkerHead) /\ WF_vars(WorkerPoll) /\ WF_vars(WorkerProcess)


(***************************************************************************)
(* Properties                                                              *)
(***************************************************************************)
IsPrefix(a, b) == Len(a) <= Len(b) /\ SubSeq(b, 1, Len(a)) = a

RECURSIVE PowderPhases(_)
PowderPhases(powders) ==
    IF powders = <<>> THEN <<>>
    ELSE << [ph |-> "P2", on |-> <<_find_storage_by_substance_label(Head(powders).name)>>],
            [ph |-> "DOSING", on |-> <<Head(powders).name, Head(powders).qty_mg, "mg">>],
            [ph |-> "P3", on |-> <<>>] >> \o PowderPhases(Tail(powders))

RECURSIVE PlanPhases(_)
\* the phases of a plan in the order of the traversal: vial by vial, powder by powder
PlanPhases(plan) ==
    IF plan = <<>> THEN <<>>
    ELSE << [ph |-> "P1", on |-> <<Head(plan).vial_id>>] >>
         \o PowderPhases(Head(plan).powders)
         \o << [ph |-> "P4", on |-> <<>>] >>
         \o PlanPhases(Tail(plan))

PhaseLabels(tr) == [i \in 1..Len(tr) |-> tr[i].ph]

\* the failures the helpers name when a selection is missing or a precondition unmet
NamedFailures == {"Vial requise pour P1", "Pan non vide", "Storage requis",
                  "Dispenser deja present", "Vial requise pour P3", "Pan vide",
                  "Pas de dispenser", "Label inconnu"}

RegisterWrites == {"set_vials_nb", "set_disp_nb"}

\* C1: the phases of a JSON plan run are started in the order of the plan: per vial P1,
\* then per powder P2 (on the powder's slot), Dosing (the powder's name and quantity in
\* mg), P3, then P4; the run is reported finished exactly after the last vial's P4, and
\* nothing is started beyond it.
C1_PlanOrder ==
    LET expected == PlanPhases(obs.jplan) IN
    /\ IsPrefix(PhaseLabels(obs.trace), PhaseLabels(expected))
    /\ \A i \in 1..Len(obs.trace) :
          \/ obs.trace[i].on = expected[i].on
          \/ obs.trace[i].ph = "DOSING" /\ obs.trace[i].on = <<>>
    /\ obs.jterminal = <<"finished">> => Len(obs.trace) = Len(expected)

\* a run of the plan "one vial, two powders" finished with every dosing job submitted
C1_Witness ==
    /\ obs.jterminal = <<"finished">>
    /\ PhaseLabels(obs.trace) = <<"P1", "P2", "DOSING", "P3", "P2", "DOSING", "P3", "P4">>
    /\ \A i \in 1..Len(obs.trace) : obs.trace[i].ph = "DOSING" => obs.trace[i].on # <<>>

\* C2: a step of a run begins (load, write, play, job submission) only when no phase of
\* that run is open, a callback starts at most one phase, and a phase is reported
\* completed only on STOPPED accepted by the poll or on a worker that is not alive.
C2_OnePhaseAtATime ==
    /\ obs.step.prevOpen = NoneV
    /\ Len(obs.started) <= 1
    /\ obs.poll.done =>
          IF obs.poll.kind = "dosing" THEN ~obs.poll.alive ELSE obs.poll.canon = K_STOPPED

\* the dosing poll of a plan run reported the phase completed and P3 was started
C2_Witness ==
    /\ obs.poll.done /\ obs.poll.kind = "dosing" /\ obs.poll.drv = "json"
    /\ obs.started = <<"P3">>

\* C3: a program-state tick whose canonical state is RUNNING or PAUSED never reports the
\* step completed: it starts nothing, commands nothing and re-arms the poll timer.
C3_ActiveNeverCompletes ==
    (obs.poll.kind = "program" /\ obs.poll.canon \in {K_RUNNING, K_PAUSED}) =>
        /\ ~obs.poll.done
        /\ obs.started = <<>> /\ obs.cmds = <<>>
        /\ obs.poll.drv = "json" => js._running /\ "json_poll_program" \in timers
        /\ obs.poll.drv = "auto" => au._seq_running /\ "auto_poll" \in timers

\* a tick of the plan driver read PAUSED
C3_Witness ==
    obs.poll.kind = "program" /\ obs.poll.drv = "json" /\ obs.poll.canon = K_PAUSED

\* C4: a polled STOPPED completes the step only if RUNNING or PAUSED was seen since the
\* play or the grace window of about 2 s since the play is over.
C4_GraceWindow ==
    (obs.poll.kind = "program" /\ obs.poll.done /\ obs.poll.canon = K_STOPPED) =>
        obs.poll.seen \/ obs.poll.grace

C6_StopBeforeWrite ==
    \A i \in 1..Len(obs.cmds) :
        obs.cmds[i] \in RegisterWrites =>
            i >= 3 /\ obs.cmds[i - 1] = "stop" /\ obs.cmds[i - 2] = "checks_passed"

\* a manual Play of a program that is none of P1..P4 wrote VialsNB
C6_Witness ==
    /\ obs.step.ph = "OTHER"
    /\ \E i \in 1..Len(obs.cmds) : obs.cmds[i] = "set_vials_nb"

\* C7: when play is issued for a step, the register of the step holds the number of the
\* selected vial (P1, P3), of the selected storage slot (P2), or of the slot whose label
\* matches the name of the mounted dispenser (P4).
C7_RegisterAtPlay ==
    LET st == obs.step IN
    st.outcome = "played" =>
        CASE st.ph \in {"P1", "P3"} ->
                /\ st.vial \in DOMAIN VIAL_ID_TO_NUMBER
                /\ robot.VialsNB = VIAL_ID_TO_NUMBER[st.vial]
          [] st.ph = "P2" ->
                /\ st.storage \in DOMAIN StorageNumber
                /\ robot.DispNB = StorageNumber[st.storage]
          [] st.ph = "P4" ->
                \E sid \in DOMAIN StorageLabels :
                    /\ _norm_label(StorageLabels[sid]) = _norm_label(st.headPhys)
                    /\ robot.DispNB = StorageNumber[sid]
          [] OTHER -> TRUE

\* vial E1-3 ticked, pan empty: P1 passed, VialsNB holds E1-3's number, play was issued
C7_Witness ==
    /\ obs.step.ph = "P1" /\ obs.step.outcome = "played"
    /\ obs.step.vial = "E1-3" /\ obs.step.panPhys = 0
    /\ robot.VialsNB = VIAL_ID_TO_NUMBER["E1-3"]
    /\ \E i \in 1..Len(obs.cmds) : obs.cmds[i] = "play"

\* C8: a step that aborts on a precondition failure commanded nothing before: no door
\* movement, no program load, no stop, no register write, no play.
C8_AbortTouchesNothing ==
    obs.step.why \in NamedFailures =>
        \A i \in 1..Len(obs.cmds) :
            obs.cmds[i] \notin {"open_door", "close_door", "load", "stop", "play"}
                                \cup RegisterWrites

\* C9: when play is issued for P1 or P3 the balance door is open: read as open, or opened
\* by the step.
C9_DoorOpenAtPlay ==
    (obs.step.outcome = "played" /\ obs.step.ph \in {"P1", "P3"}) =>
        /\ obs.step.door \in {"read_open", "opened"}
        /\ balance.door > 0

\* C10: play for P2 is never issued while a dispenser is mounted on the balance.
C10_NoHeadAtP2Play ==
    (obs.step.outcome = "played" /\ obs.step.ph = "P2") => Strip(obs.step.headPhys) = <<>>


\* C11: a P1 step whose pan check acquired no gross-weight sample is blocked before play
\* (nothing played, no register written), and a P3 step whose pan check acquired no
\* sample is not blocked by the pan check.
C11_NoDataBlocksP1NotP3 ==
    LET st == obs.step IN
    /\ (st.ph = "P1" /\ st.panRead = "no_data") =>
          /\ st.outcome # "played"
          /\ \A i \in 1..Len(obs.cmds) : obs.cmds[i] \notin RegisterWrites \cup {"play"}
    /\ (st.ph = "P3" /\ st.panRead = "no_data") => st.why # "Pan vide"


\* C12: a dosing-job submission answered with an Outcome other than Success starts no
\* notification worker: the thread the window holds and the number of live workers are
\* what they were before the submission.
C12_NoWorkerWithoutSuccess ==
    obs.job.outcome \notin {NoneV, "Success"} =>
        /\ wb._dosing_thread = obs.job.before
        /\ wb.workers = obs.job.workers0

\* a plan run submitted a job that the balance answered with Outcome Error
C12_Witness ==
    /\ obs.job.outcome = "Error" /\ obs.step.drv = "json" /\ obs.step.ph = "DOSING"
    /\ wb._dosing_thread = NoneV /\ wb.workers = 0

\* C13: a submission creates a notification worker only if the response has Outcome
\* Success, no start error and no job errors.
C13_WorkerOnlyWithoutJobErrors ==
    (obs.job.outcome # NoneV /\ wb.workers > obs.job.workers0) =>
        obs.job.outcome = "Success" /\ ~obs.job.s_err /\ ~obs.job.errors


\* the entries of the worker's log from the one after i up to the next notification
UntilNextNotif(i) ==
    LET later == {j \in (i + 1)..Len(obs.wlog) : obs.wlog[j].op = "notif"}
        stop  == IF later = {} THEN Len(obs.wlog)
                 ELSE (CHOOSE j \in later : \A k \in later : j <= k) - 1
    IN (i + 1)..stop

\* C14: every notification of an action to confirm, with a non-empty action type, that
\* the consumer took from a batch is answered by exactly one call of confirm with the
\* action type and the item of the notification, made before the next notification is
\* taken; the requests of that call carry the same action type and item.
C14_ConfirmEachAction ==
    \A i \in 1..Len(obs.wlog) :
        LET n == obs.wlog[i] IN
        (n.op = "notif" /\ n.kind = "Action" /\ n.action # "") =>
            LET calls == {j \in UntilNextNotif(i) : obs.wlog[j].op = "confirm"}
                item  == IF n.item = NoneV THEN "" ELSE n.item
            IN
            /\ Cardinality(calls) = 1
            /\ obs.wlog[i + 1].op = "confirm"
            /\ \A j \in UntilNextNotif(i) :
                  obs.wlog[j].op \in {"confirm", "send"} =>
                      obs.wlog[j].action = n.action /\ obs.wlog[j].item = item

\* the consumer confirmed PlaceVial for Vial1 and went on to the next notification
C14_Witness ==
    \E i \in 1..Len(obs.wlog) :
        /\ obs.wlog[i] = Ev("notif", "Action", "PlaceVial", "Vial1")
        /\ i + 2 < Len(obs.wlog)
        /\ obs.wlog[i + 1] = Ev("confirm", "", "PlaceVial", "Vial1")
        /\ obs.wlog[i + 2] = Ev("send", "ok", "PlaceVial", "Vial1")
        /\ obs.wlog[i + 3].op = "notif"

\* C15: the end-of-job-list notification ends the consumer: right after it the consumer
\* returns, nothing follows in its log and the worker is done; and the consumer returns
\* for no other notification: a return is due to the end of the job list, to the stop
\* signal, to a failed long poll or to an error raised by a confirm.
C15_FinishedTerminates ==
    LET log == obs.wlog IN
    /\ \A i \in 1..Len(log) :
          (log[i].op = "notif" /\ log[i].kind = "Finished") =>
              /\ Len(log) = i + 1 /\ log[i + 1] = Ev("exit", "finished", "", "")
              /\ wb.worker.pc = "done"
    /\ \A i \in 1..Len(log) :
          log[i].op = "exit" =>
              /\ i = Len(log)
              /\ log[i].kind = "finished" =>
                    i > 1 /\ log[i - 1].op = "notif" /\ log[i - 1].kind = "Finished"
              /\ log[i].kind = "raised" =>
                    i > 1 /\ log[i - 1].op = "send" /\ log[i - 1].kind # "ok"
              /\ log[i].kind = "error" =>
                    i > 1 /\ log[i - 1] = Ev("poll", "Other", "", "")
              /\ log[i].kind = "stop" => wb._dosing_stop = "set"
    /\ (wb.worker.pc = "done" /\ log # <<>>) => log[Len(log)].op = "exit"

\* a finished job was passed over, then the end of the job list ended the consumer with
\* an action of the same batch left unprocessed
C15_Witness ==
    /\ wb.worker.pc = "done" /\ Len(obs.wlog) >= 3
    /\ obs.wlog[Len(obs.wlog)] = Ev("exit", "finished", "", "")
    /\ wb.worker.polls = 2
    /\ wb.worker.batch = <<Ev("notif", "Action", "PlaceVial", "Vial1")>>

\* C16: a session loss is answered by one reopen and one retry, and a failing retry is
\* raised: a wrapped call sends its request at most twice with one reopen in between,
\* and the long poll of the consumer reopens the session at most once in a row.
C16_OneReopenOneRetry ==
    LET log == obs.wlog IN
    /\ \A i \in 1..Len(log) :
          log[i].op = "confirm" =>
              LET part == UntilNextNotif(i)
                  sends == {j \in part : log[j].op = "send"}
                  reopens == {j \in part : log[j].op = "reopen"}
              IN
              /\ Cardinality(sends) <= 2 /\ Cardinality(reopens) <= 1
              /\ log[i + 1].kind = "Session" <=> Cardinality(sends) = 2
              /\ Cardinality(sends) = 2 <=> Cardinality(reopens) = 1
              /\ (Cardinality(sends) = 2 /\ log[i + 3].kind # "ok") =>
                    log[Len(log)] = Ev("exit", "raised", "", "")
    /\ obs.reopens <= 1

\* C17: Cancel calls the job-list cancel first; the task cancel only after a job-list
\* cancel that did not come back with Success, and the command-id cancel only after a
\* task cancel that did not come back with Success either; a job-list cancel that comes
\* back with another outcome, or raises, is followed by the task cancel.
C17_CancelChain ==
    LET c == obs.cancel IN
    c # <<>> =>
        /\ c[1].call = "cancel_dosing_job_list"
        /\ Len(c) >= 2 => c[2].call = "cancel_current_task" /\ c[1].result # "Success"
        /\ Len(c) >= 3 => c[3].call = "cancel_command" /\ c[2].result # "Success"
        /\ c[1].result # "Success" => Len(c) >= 2

\* C18: after Cancel the stop signal of the live worker is set, however the cancel calls
\* ended; and a live worker whose stop signal is set ends.
C18_CancelStopsConsumer ==
    /\ [](obs.cancel # <<>> /\ wb._dosing_thread = "alive" => wb._dosing_stop = "set")
    /\ (wb._dosing_thread = "alive" /\ wb._dosing_stop = "set")
          ~> (wb._dosing_thread # "alive")

\* the job-list cancel raised; the worker, inside a batch, has its stop signal set
C18_Witness ==
    /\ obs.cancel = <<[call |-> "cancel_dosing_job_list", result |-> "raise"]>>
    /\ wb._dosing_thread = "alive" /\ wb.worker.pc = "batch" /\ wb._dosing_stop = "set"

\* C19: at most one worker is alive; a submission made while the worker is alive creates
\* none.
C19_OneWorker ==
    /\ wb.workers <= 1
    /\ wb._dosing_thread = "alive" <=> wb.workers = 1
    /\ (obs.job.outcome # NoneV /\ obs.job.before = "alive") =>
          wb.workers = obs.job.workers0

\* a second job was accepted while the worker of the first was alive
C19_Witness ==
    /\ obs.job.outcome = "Success" /\ ~obs.job.s_err /\ obs.job.before = "alive"
    /\ obs.runs = 2 /\ wb.workers = 1


\* C20: a step in which a response of the robot held the operator-mode lock text leaves
\* the robot handle nulled and the status Need Reconnect, starts no phase, and its run is
\* aborted.
C20_LockForcesReconnect ==
    obs.step.lock =>
        /\ devices.ur3 = NoneV /\ ui.var_status = "Need Reconnect"
        /\ obs.started = <<>>
        /\ obs.step.drv = "json" => ~js._running /\ obs.jterminal = <<"aborted">>
        /\ obs.step.drv = "auto" => ~au._seq_running /\ obs.aterminal = <<"aborted">>

\* C21: once the robot is forced into Need Reconnect it stays so until the operator's
\* Connect: a heartbeat leaves the status Need Reconnect and the handle nulled, and no
\* other step than the operator's Connect re-establishes the connection.
C21_NeedReconnectSticks ==
    [][ui.var_status = "Need Reconnect" =>
          /\ WatchPeriod => devices'.ur3 = NoneV /\ ui'.var_status = "Need Reconnect"
          /\ devices'.ur3 # NoneV => OnConnect]_vars

\* a run of either driver was aborted
Aborted == obs.jterminal = <<"aborted">> \/ obs.aterminal = <<"aborted">>

DeviceCmds == {"load", "stop", "play", "start_dosing_job"} \cup RegisterWrites

\* C22: an abort is terminal for its run: in no later step, short of a new Start by the
\* operator, is a program loaded, the robot stopped, a register written, play sent, a
\* dosing job submitted or a phase started, the driver's running flag stays down and no
\* timer of the driver is pending.
C22_AbortIsTerminal ==
    [][Aborted /\ obs'.start = NoneV =>
          /\ obs'.started = <<>>
          /\ \A i \in 1..Len(obs'.cmds) : obs'.cmds[i] \notin DeviceCmds
          /\ obs.jterminal = <<"aborted">> =>
                ~js'._running /\ timers' \cap {"json_poll_program", "json_poll_dosing"} = {}
          /\ obs.aterminal = <<"aborted">> =>
                /\ ~au'._seq_running
                /\ timers' \cap {"auto_poll", "auto_check_dosing_started",
                                 "auto_wait_dosing", "auto_start_p3"} = {}]_vars

\* a plan run was aborted at its second phase while the robot was moving, and the robot
\* has come to a stop since
C22_Witness ==
    /\ obs.jterminal = <<"aborted">> /\ obs.step.outcome = NoneV
    /\ Len(obs.trace) >= 1 /\ robot.state = "STOPPED" /\ ~robot.pending

\* C23: a run that ended has logged exactly one terminal line, the abort line or the
\* finished line, never both and never one twice; a run that goes on has logged none;
\* after the line the driver's running flag is down and its Start handler accepts a run.
C23_OneTerminalLine ==
    /\ Len(obs.jterminal) <= 1 /\ Len(obs.aterminal) <= 1
    /\ obs.jplan # <<>> => (js._running <=> obs.jterminal = <<>>)
    /\ (obs.atrace # <<>> /\ ~au._seq_running) => Len(obs.aterminal) = 1
    /\ au._seq_running => obs.aterminal = <<>>
    /\ obs.jterminal # <<>> => on_start_plan(Now, {}).obs.runs = obs.runs + 1
    /\ obs.aterminal # <<>> => on_test_full_loop(Now, {}).obs.runs = obs.runs + 1

\* a plan run aborted after two phases, and a fixed-loop run finished, each with its line
C23_Witness ==
    \/ obs.jterminal = <<"aborted">> /\ Len(obs.trace) = 2 /\ ~js._running
    \/ obs.aterminal = <<"finished">> /\ ~au._seq_running

\* C24: a request to start a run, of either driver, made while a run of either driver
\* is going on is rejected: it sends no command to a device, starts no phase and leaves
\* both running flags as they were (one run going on, not two).
C24_StartRejectedWhileBusy ==
    obs.start = "busy" =>
        /\ obs.cmds = <<>> /\ obs.started = <<>>
        /\ ~(js._running /\ au._seq_running)

\* C25: at a program-state tick of either driver the robot handle is read from the
\* shared device map; a handle that is null (or disconnected) at the tick, and a state
\* query that raises, abort the run at that tick, and the tick starts no phase and
\* re-arms no timer.
C25_LostAtTickAborts ==
    (obs.poll.tick # NoneV /\ (obs.poll.arm # "Up" \/ obs.poll.raised)) =>
        /\ obs.started = <<>> /\ timers = {}
        /\ obs.poll.tick = "json" => ~js._running /\ obs.jterminal = <<"aborted">>
        /\ obs.poll.tick = "auto" => ~au._seq_running /\ obs.aterminal = <<"aborted">>

\* the heartbeat nulled the handle between two ticks of a plan run in its second phase
C25_Witness ==
    /\ obs.poll.tick = "json" /\ obs.poll.arm = NoneV /\ ~obs.poll.raised
    /\ Len(obs.trace) = 2 /\ obs.jterminal = <<"aborted">>

\* C26: when the heartbeat of a device finds the device lost, the handle of that device
\* in the shared map is torn down and nulled: the robot's (status Disconnected) and the
\* balance's (Connect button offered again).
C26_LostDeviceNulled ==
    /\ ui.var_status = "Disconnected" => devices.ur3 = NoneV
    /\ (\E i \in 1..Len(obs.cmds) : obs.cmds[i] = "btn_connect:Connect") =>
          devices.scale = NoneV

\* a call of the main loop to the balance gateway was made in this step
MainLoopBalanceCall ==
    \/ obs.cancel # <<>>
    \/ \E i \in 1..Len(obs.cmds) :
          obs.cmds[i] \in {"btn_connect:Connected", "btn_connect:Connect", "close_door",
                           "start_dosing_job"}

\* C27: the operations on one device's gateway exclude one another: no call of the main
\* loop to the balance is made while a call of the consumer worker is in flight (the
\* exchanges with the robot are all made by callbacks of the main loop, one at a time).
C27_OneCallInFlight ==
    ~(MainLoopBalanceCall /\ wb.worker.pc = "wait")

\* C28: while a plan run goes on the loaded plan does not change, and a plan file
\* loaded during the run changes neither the plan nor the two cursors the run uses.
C28_PlanFrozenWhileRunning ==
    [][js._running =>
          /\ js'._running => js'.plan = js.plan
          /\ obs'.reloads # obs.reloads =>
                /\ js'.cur_vial_idx = js.cur_vial_idx
                /\ js'.cur_powder_idx = js.cur_powder_idx]_vars

\* C29: in a plan run the VialsNB register written at a P1 is the configured number of
\* the plan entry's vial, and the register written at each P3 of that vial is the number
\* written at its P1, whatever the operator ticks in between.
C29_SameVialAtP1AndP3 ==
    LET st == obs.step
        p1s == {i \in 1..Len(obs.trace) : obs.trace[i].ph = "P1"}
        last == CHOOSE i \in p1s : \A j \in p1s : j <= i
    IN
    /\ (st.drv = "json" /\ st.ph = "P1" /\ st.outcome = "played") =>
          robot.VialsNB = VIAL_ID_TO_NUMBER[_get_current_vial(Now).vial_id]
    /\ (st.drv = "json" /\ st.ph = "P3" /\ st.outcome = "played") =>
          robot.VialsNB = VIAL_ID_TO_NUMBER[obs.trace[last].on[1]]

\* what the claim wants of a powder entry and of a vial entry: a name, a strictly
\* positive quantity; an id, one valid powder at least
ValidPowder(p) ==
    /\ p.dict /\ p.name.t = "str" /\ Strip(p.name.s) # <<>>
    /\ PyFloat(p.qty_mg).exc = NoneV /\ PyFloat(p.qty_mg).x > 0
IdOf(v) == FirstTruthy(v.vial_id, v.name, v.vial)
ValidVial(v) ==
    /\ v.dict /\ IdOf(v).t = "str" /\ Strip(IdOf(v).s) # <<>>
    /\ v.powders.t = "list" /\ \E i \in 1..Len(v.powders.items) : ValidPowder(v.powders.items[i])

KeptPowder(p) == [name |-> Strip(p.name.s), qty_mg |-> PyFloat(p.qty_mg).x]

RECURSIVE KeepPowders(_)
\* the valid powders of src, in their order
KeepPowders(src) ==
    IF src = <<>> THEN <<>>
    ELSE (IF ValidPowder(Head(src)) THEN <<KeptPowder(Head(src))>> ELSE <<>>)
             \o KeepPowders(Tail(src))

KeptVial(v) == [vial_id |-> Intern(Strip(IdOf(v).s)), powders |-> KeepPowders(v.powders.items)]

RECURSIVE KeepVials(_)
\* the valid vial entries of src, in their order
KeepVials(src) ==
    IF src = <<>> THEN <<>>
    ELSE (IF ValidVial(Head(src)) THEN <<KeptVial(Head(src))>> ELSE <<>>)
             \o KeepVials(Tail(src))

WantedPlan(data) ==
    IF ~data.dict \/ data.vials.t # "list" THEN <<>>
    ELSE KeepVials(data.vials.items)

\* C30: a load parses the document into exactly its valid vial entries, in their order,
\* each with exactly its valid powders in their order, without an exception whatever
\* the other entries hold; a document with no list of vials, or with no valid vial, is
\* refused and leaves the plan and the cursors as they were.
C30_ParseKeepsValidEntries ==
    obs.load.seen =>
        /\ obs.load.exc = NoneV
        /\ obs.load.out = WantedPlan(obs.load.data)
        /\ IF WantedPlan(obs.load.data) = <<>>
           THEN /\ js.plan = obs.load.plan
                /\ js.cur_vial_idx = obs.load.cur_vial_idx
                /\ js.cur_powder_idx = obs.load.cur_powder_idx
           ELSE js.plan = WantedPlan(obs.load.data)

\* C31: the canonical state a tick of either driver works with is exactly one of
\* RUNNING, PAUSED, STOPPED, UNKNOWN whatever the raw reply of the robot, and classifying
\* it once more gives the same value.
C31_ClassificationTotal ==
    obs.poll.kind = "program" /\ obs.poll.tick # NoneV /\ ~obs.poll.raised
                              /\ obs.poll.arm = "Up" =>
        /\ obs.poll.canon \in {K_RUNNING, K_PAUSED, K_STOPPED, K_UNKNOWN}
        /\ ClassifyState(obs.poll.canon) = obs.poll.canon

\* the vial whose number is n in the table, "None" without one
VialOfNumber(n) ==
    IF \E v \in DOMAIN VIAL_ID_TO_NUMBER : VIAL_ID_TO_NUMBER[v] = n
    THEN CHOOSE v \in DOMAIN VIAL_ID_TO_NUMBER : VIAL_ID_TO_NUMBER[v] = n
    ELSE NoneV

\* C32: the table of vial numbers is a bijection from its vial ids onto 1..11: every id
\* of the E group has a number, no two ids share one, every number of 1..11 is some
\* id's, and the number a P1 or P3 helper wrote for the ticked vial leads back to that
\* vial.
C32_VialTableBijection ==
    /\ \A i \in 1..Len(VialIdsC) : _vial_id_to_number(VialIdsC[i]) \in 1..11
    /\ \A v1, v2 \in DOMAIN VIAL_ID_TO_NUMBER :
          VIAL_ID_TO_NUMBER[v1] = VIAL_ID_TO_NUMBER[v2] => v1 = v2
    /\ \A n \in 1..11 : VialOfNumber(n) # NoneV
    /\ (\E i \in 1..Len(obs.cmds) : obs.cmds[i] = "set_vials_nb") /\ obs.step.outcome = "played"
          => /\ robot.VialsNB = _vial_id_to_number(obs.step.vial)
             /\ VialOfNumber(robot.VialsNB) = obs.step.vial

\* the operator ticked slot E3-1 and played P1: register 11
C32_Witness ==
    /\ obs.step.ph = "P1" /\ obs.step.outcome = "played"
    /\ obs.step.vial = "E3-1" /\ robot.VialsNB = 11

\* C33: a driver plays P3 after a dosing phase only when the dosing job was accepted
\* by the balance and its notification consumer has ended: the consumer thread, which
\* is created for an accepted job only, exists and is dead; with a job that was not
\* started P3 is not played.
C33_P3OnlyAfterDosing ==
    (obs.step.drv \in {"json", "auto"} /\ obs.step.ph = "P3"
                                       /\ obs.step.outcome = "played") =>
        wb._dosing_thread = "dead"

\* C34: once the operator has stopped the robot (Stop or Escape) while a run was
\* waiting for its program, that run sends no play any more.
C34_NoPlayAfterStop ==
    (obs.estop > 0 /\ obs.estop = obs.runs /\ obs.step.drv = "json") =>
        \A i \in 1..Len(obs.cmds) : obs.cmds[i] # "play"

\* the program of a phase
PhaseProgram(ph) ==
    CASE ph = "P1" -> P1_PROGRAM [] ph = "P2" -> P2_PROGRAM
      [] ph = "P3" -> P3_PROGRAM [] OTHER     -> P4_PROGRAM

\* C35: whenever a driver has sent play for a phase P1..P4, the program loaded on the
\* robot is that phase's program; after a load that failed the step has sent neither a
\* register write nor play.
C35_PlayedProgramIsLoaded ==
    (obs.step.drv \in {"json", "auto"} /\ obs.step.ph \in {"P1", "P2", "P3", "P4"}
        /\ \E i \in 1..Len(obs.cmds) : obs.cmds[i] = "play") =>
            robot.loaded = PhaseProgram(obs.step.ph)

\* C36: in a cell that the robot alone moves, with devices that answer, no step of a
\* plan run is blocked by the precondition of its phase and the run is not aborted:
\* the run of a vial with two powders goes on to "plan finished".
C36_PlanRunsThrough ==
    /\ obs.step.drv = "json" => obs.step.outcome \in {NoneV, "played"}
    /\ obs.jterminal # <<"aborted">>

\* C37: a dosing job that the balance has just accepted (Outcome Success, no start
\* error) has a live notification consumer whose stop signal is not set, also when the
\* Start came after a Cancel and the previous worker had not yet exited.
C37_AcceptedJobHasConsumer ==
    (obs.job.outcome = "Success" /\ ~obs.job.s_err) =>
        wb._dosing_thread = "alive" /\ wb._dosing_stop = "clear"

\* C38: once the stop signal of a live consumer is set, no step of that consumer sends
\* a ConfirmDosingJobAction request, also not for the notifications of a batch that
\* its long poll had brought back or was about to bring back.
C38_NoConfirmAfterStop ==
    [][(wb._dosing_thread = "alive" /\ wb._dosing_stop = "set") =>
          \A i \in 1..Len(obs'.wlog) : i > Len(obs.wlog) => obs'.wlog[i].op # "send"]_vars

\* the timers of each driver
JsonTimers == {"json_poll_program", "json_poll_dosing"}
AutoTimers == {"auto_poll", "auto_check_dosing_started", "auto_wait_dosing", "auto_start_p3"}

\* a run that is going on has a timer of its driver armed
TimerArmed ==
    /\ js._running => timers \cap JsonTimers # {}
    /\ au._seq_running => timers \cap AutoTimers # {}

\* C39: a run that is going on always has a timer of its driver armed; and, the robot
\* programs running to their end and the worker thread returning, a run of the plan
\* driver and a run of the fixed-loop driver come to their terminal line (finished or
\* aborted) with the running flag false.
C39_RunsTerminate ==
    /\ []TimerArmed
    /\ js._running ~> (~js._running /\ obs.jterminal # <<>>)
    /\ au._seq_running ~> (~au._seq_running /\ obs.aterminal # <<>>)

\* the cursors of the plan driver, as a pair
Cursors(j) == <<j.cur_vial_idx, j.cur_powder_idx>>

\* the cursors are in range: the vial cursor within 0..number of vials and, when a vial
\* is current, the powder cursor within 0..number of its powders
CursorsInRange(j) ==
    /\ 0 <= j.cur_vial_idx /\ j.cur_vial_idx <= Len(j.plan)
    /\ j.cur_vial_idx < Len(j.plan) =>
          /\ 0 <= j.cur_powder_idx
          /\ j.cur_powder_idx <= Len(j.plan[j.cur_vial_idx + 1].powders)

\* C40: every accepted start of a plan run sets the cursors to (0, 0) and begins P1 on
\* the first vial of the plan; while a run goes on the cursors never move backward; the
\* powder cursor grows only by one, in the continuation of a completed P3, the vial
\* cursor grows only by one, with the powder cursor set to 0, in the continuation of a
\* completed P4; and the cursors are always in range.
C40_CursorsForward ==
    [][/\ (obs'.start = "free" /\ obs'.runs # obs.runs /\ js.plan # <<>>) =>
              /\ Cursors(js') = <<0, 0>>
              /\ obs'.step.drv = "json" /\ obs'.step.ph = "P1"
              /\ obs'.trace # <<>> =>
                    obs'.trace[1] = [ph |-> "P1", on |-> <<js.plan[1].vial_id>>]
       /\ (js._running /\ js'._running) =>
              \/ js'.cur_vial_idx > js.cur_vial_idx
              \/ js'.cur_vial_idx = js.cur_vial_idx
                    /\ js'.cur_powder_idx >= js.cur_powder_idx
       /\ js'.cur_powder_idx > js.cur_powder_idx =>
              /\ js'.cur_powder_idx = js.cur_powder_idx + 1
              /\ js'.cur_vial_idx = js.cur_vial_idx
              /\ obs'.poll.done /\ obs'.poll.kind = "program" /\ js._current_phase = "P3"
       /\ js'.cur_vial_idx > js.cur_vial_idx =>
              /\ js'.cur_vial_idx = js.cur_vial_idx + 1
              /\ js'.cur_powder_idx = 0
              /\ obs'.poll.done /\ obs'.poll.kind = "program" /\ js._current_phase = "P4"
       /\ CursorsInRange(js')]_vars

====
